---- MODULE Spec2Model ----
(***************************************************************************)
(* A model of the capability hooks of the BrainDrive functional plugin     *)
(* template: usePluginState, useTheme, usePageContext, useSettings,        *)
(* useAPI and useErrorHandler, each driven by one UI unit and one host     *)
(* capability.  One UI unit is analysed per behaviour (variable unit): a   *)
(* binding is owned by exactly one UI unit and shares nothing with the     *)
(* bindings of other units.                                                *)
(***************************************************************************)
EXTENDS Integers, Sequences, FiniteSets, TLC

(***************************************************************************)
(* Bounds of the model.                                                    *)
(***************************************************************************)
MaxMounts == 2      \* component instances created in one behaviour
MaxInFlight == 2    \* capability calls of one binding in flight at a time
MaxRuns == 2        \* runs of a subscribing effect in one behaviour
MaxThrowAt == 1     \* the unsubscribe functions of a cleanup that may throw: the first MaxThrowAt
MaxRetriesArg == 1  \* useErrorHandler(maxRetries): maxRetries is drawn from 0..MaxRetriesArg
MaxAttempts == 4    \* executions of the operation of one safeAsync call
MaxValidators == 2  \* validators handed to useSettingsWithValidation
MaxEdits == 2       \* edits of the form of PluginStateServiceTab in one behaviour
TickMs == 500       \* the step of time, in milliseconds
MaxReceived == 12   \* messages the host delivers to the EventServiceTab

(***************************************************************************)
(* Values.  A payload is named by a number; PayloadFields gives its fields *)
(* as a set of <<key, serialized bytes>> pairs.  Null is JavaScript null.  *)
(***************************************************************************)
Null == 0
Payloads == {1, 2, 3}
PayloadFields ==
  << {<<"counter", 2>>},
     {<<"sessionId", 2>>},
     {<<"counter", 2>>, <<"userData", 10240>>} >>

RECURSIVE SumBytes(_)
SumBytes(fs) ==
  IF fs = {} THEN 0
  ELSE LET f == CHOOSE x \in fs : TRUE IN f[2] + SumBytes(fs \ {f})

\* serialized size of a payload
Size(p) == SumBytes(PayloadFields[p])

maxStateSize == 10240

NoError == "none"

Range(f) == {f[j] : j \in DOMAIN f}

VARIABLES
  unit,            \* the UI unit (binding) this behaviour is about
  \* ---- usePluginState, inside PluginStateServiceTab ----
  psInst,          \* the current component instance, 1..MaxMounts
  psPhase,         \* "new" (rendered, effects not run), "mounted", "unmounted"
  ps,              \* the current instance: state, isLoading, error, isMountedRef
  psService,       \* services.pluginState is present
  psHasConfigure,  \* services.pluginState.configure is present
  psAutoLoad,      \* the autoLoad argument
  psCalls,         \* capability calls in flight (promises not yet continued)
  psGen,           \* number of runs of the subscription effect so far
  psCleanupFns,    \* cleanupFns of the latest run of the subscription effect
  psRegistered,    \* subscriptions the host still holds
  psUnsubCount,    \* per created subscription: invocations of its unsubscribe
  psInvoked,       \* the methods of the capability invoked so far
  psReturn,        \* the latest event of the instance: how a promise settled, or a push
  hostStored,      \* the snapshot the host holds
  hostConfigured,  \* configure() has succeeded on the host
  \* ---- useTheme (unit "theme") and usePageContext (unit "page") ----
  sbPhase,         \* "new", "mounted", "unmounted"
  sbService,       \* the theme / page-context service is present
  sbHandler,       \* an errorHandler was supplied
  sbValue,         \* currentTheme / pageContext
  sbRef,           \* listenerRef.current / unsubscribeRef.current (0: null)
  sbGen,           \* number of runs of the effect so far
  sbRegistered,    \* the listeners the host still holds
  sbEverRegistered,\* the listeners the host ever accepted
  sbReleaseCount,  \* per listener: invocations of its removal / unsubscribe
  sbInvoked,       \* the methods of the capability invoked so far
  sbHost,          \* the host's current theme / page context
  sbReturn,        \* how the latest call of setTheme / toggleTheme ended
  \* ---- useAPI (units "api" and "overlap") ----
  apMounted,       \* the UI unit that owns the binding is mounted
  apService,       \* the api service is present
  apStreaming,     \* the api service has postStreaming
  ap,              \* the hook's state: data, loading, error
  apCalls,         \* capability calls in flight
  apInvoked,       \* the methods of the capability invoked so far
  apReturn,        \* how the latest promise of a verb settled
  \* ---- useSettings (unit "settings") ----
  stPhase,         \* "new" (rendered, effects not run), "mounted", "unmounted"
  stService,       \* the settings service is present
  stMethods,       \* the service has getSetting and setSetting
  stKey,           \* a settingKey was given
  st,              \* the hook's state: value, isLoading, error
  stCalls,         \* capability calls in flight
  stInvoked,       \* the methods of the capability invoked so far
  stReturn,        \* how the latest promise of the hook settled
  stHost,          \* the value the host holds for the key
  \* ---- useErrorHandler (unit "errors") and the ErrorHandler it wraps ----
  ehMax,           \* the maxRetries argument (maxRetriesRef.current)
  eh,              \* errorState: error, retryAvailable, retryCount
  ehRetryCountRef, \* retryCountRef.current
  ehCallback,      \* retryCallbackRef.current is set
  ehRetrying,      \* retry callbacks awaited by handleRetry and not yet settled
  ehReturn,        \* what the latest function of the hook returned (op: handleRetry, or
                   \* the strategy of a safeAsync), and the attempts it took
  egCalls,         \* ErrorHandler.safeAsync calls in flight
  egRetryCount,    \* the ErrorHandler's retry counter of its context
  \* ---- PluginTemplateFunctional (unit "plugin"), with its own ErrorHandler ----
  plPhase,         \* "new" (rendered, effects not run), "mounted", "unmounted"
  pl,              \* the component's state: isInitializing, isLoading, error, retryAvailable
  plRetryCountRef, \* retryCountRef.current
  plCleanup,       \* the latest run of the initialization effect returned its cleanup
  plReturn,        \* how the latest initialization ended, and the attempts it took
  \* ---- useSettingsWithValidation (unit "validated") ----
  sv,              \* isValid, validationError
  \* ---- PluginStateServiceTab: the form and its auto-save (unit "autosave") ----
  au,              \* counter, autoSaveEnabled, the pending timer and the value its
                   \* handleSave closed over, the hook's state and isLoading, the
                   \* saveState calls in flight; and, for the current burst of edits,
                   \* the value last typed, the time since, the saves the timer issued
  \* ---- the component with manual service wiring (src/unnamed/part_007) ----
  mw,              \* isInitializing, retryCountRef, the two refs, the listeners and
                   \* subscriptions the host holds, the runs of initialize in flight
  \* ---- EventServiceTab ----
  sk,              \* useSettings under a settingKey that changes: the key, the hook's
                   \* state, the loads in flight and what the host stores per key
  ev               \* channel, isListening, messages, the handler of the effect's
                   \* latest run, the subscriptions the host holds

psVars == <<psInst, psPhase, ps, psService, psHasConfigure, psAutoLoad,
            psCalls, psGen, psCleanupFns, psRegistered, psUnsubCount,
            psInvoked, psReturn, hostStored, hostConfigured>>

sbVars == <<sbPhase, sbService, sbHandler, sbValue, sbRef, sbGen, sbRegistered,
            sbEverRegistered, sbReleaseCount, sbInvoked, sbHost, sbReturn>>

apVars == <<apMounted, apService, apStreaming, ap, apCalls, apInvoked, apReturn>>

stVars == <<stPhase, stService, stMethods, stKey, st, stCalls, stInvoked, stReturn, stHost>>

ehVars == <<ehMax, eh, ehRetryCountRef, ehCallback, ehRetrying, ehReturn, egCalls, egRetryCount>>

plVars == <<plPhase, pl, plRetryCountRef, plCleanup, plReturn>>

tabVars == <<sv, au, mw, sk, ev>>

vars == <<unit, psVars, sbVars, apVars, stVars, ehVars, plVars, tabVars>>

(***************************************************************************)
(* usePluginState: the hook's state as constructed by useState/useRef.     *)
(***************************************************************************)
psInitial == [state |-> Null, isLoading |-> FALSE, error |-> NoError, isMountedRef |-> TRUE]

NoReturn == [op |-> "none", outcome |-> "none", err |-> NoError, sole |-> FALSE, report |-> "none"]

SubKinds == <<"onSave", "onRestore", "onClear">>

psQuiet ==
  /\ psInst = 1 /\ psPhase = "new"
  /\ ps = psInitial
  /\ psCalls = {}
  /\ psGen = 0 /\ psCleanupFns = <<>>
  /\ psRegistered = {} /\ psUnsubCount = <<>>
  /\ psInvoked = {}
  /\ psReturn = NoReturn
  /\ hostConfigured = FALSE

\* the variables of the units a behaviour is not about
psIdle ==
  /\ psQuiet
  /\ psService = FALSE /\ psHasConfigure = FALSE /\ psAutoLoad = FALSE
  /\ hostStored = Null

NoSbReturn == [op |-> "none", hostThrew |-> FALSE, outcome |-> "none"]

sbIdle ==
  /\ sbPhase = "new" /\ sbService = FALSE /\ sbHandler = FALSE
  /\ sbValue = "null" /\ sbRef = 0 /\ sbGen = 0
  /\ sbRegistered = {} /\ sbEverRegistered = {}
  /\ sbReleaseCount = [l \in 1..MaxRuns |-> 0]
  /\ sbInvoked = {} /\ sbHost = "null" /\ sbReturn = NoSbReturn

\* useAPI: useState({ data: null, loading: false, error: null })
apInitial == [data |-> "null", loading |-> FALSE, error |-> "null"]

NoApReturn == [verb |-> "none", outcome |-> "none", value |-> "none", issued |-> "alone"]

apQuiet ==
  /\ apMounted = TRUE /\ ap = apInitial /\ apCalls = {} /\ apInvoked = {} /\ apReturn = NoApReturn

apIdle == apQuiet /\ apService = FALSE /\ apStreaming = FALSE

\* useSettings: useState(defaultValue), useState(false), useState(null)
stInitial == [value |-> "default", isLoading |-> FALSE, error |-> "null"]

NoStReturn == [op |-> "none", outcome |-> "none", value |-> "none"]

stQuiet ==
  /\ stPhase = "new" /\ st = stInitial /\ stCalls = {} /\ stInvoked = {}
  /\ stReturn = NoStReturn

stIdle ==
  /\ stQuiet
  /\ stService = FALSE /\ stMethods = FALSE /\ stKey = FALSE /\ stHost = "undefined"

\* useErrorHandler: useState<ErrorState>({ error: null, ..., retryAvailable: false, retryCount: 0 })
ehInitial == [error |-> "null", retryAvailable |-> FALSE, retryCount |-> 0]

NoEhReturn == [op |-> "none", value |-> "none", attempts |-> 0, clean |-> FALSE]

ehQuiet ==
  /\ eh = ehInitial /\ ehRetryCountRef = 0 /\ ehCallback = FALSE /\ ehRetrying = 0
  /\ ehReturn = NoEhReturn /\ egCalls = {} /\ egRetryCount = 0

ehIdle == ehQuiet /\ ehMax = 0

plInitial == [isInitializing |-> TRUE, isLoading |-> FALSE, error |-> "", retryAvailable |-> FALSE]

NoPlReturn == [outcome |-> "none", attempts |-> 0, clean |-> FALSE]

plIdle ==
  /\ plPhase = "new" /\ pl = plInitial /\ plRetryCountRef = 0 /\ plCleanup = FALSE
  /\ plReturn = NoPlReturn

\* useSettingsWithValidation: useState<string | null>(null), useState(true)
svInitial == [isValid |-> TRUE, validationError |-> "null"]

\* setTimeout(..., 1000)
autoSaveDelay == 1000

\* setMessages(prev => [newMessage, ...prev].slice(0, 10))
maxMessages == 10

\* PluginStateServiceTab: useState(0), useState(false); usePluginState: state null,
\* isLoading false.  burst: auto-save has been on since before the last edit
auInitial ==
  [phase |-> "mounted", service |-> FALSE, autoSaveEnabled |-> FALSE, counter |-> 0,
   state |-> <<>>, isLoading |-> FALSE, timer |-> <<>>, captured |-> 0, calls |-> <<>>,
   burst |-> FALSE, edited |-> 0, sinceEdit |-> autoSaveDelay + TickMs,
   timerSaves |-> 0, lastArg |-> <<>>]

\* part_007: useState(true) for isInitializing, useRef(0), useRef(null) twice
mwInitial ==
  [phase |-> "new", theme |-> FALSE, pageContext |-> FALSE, isInitializing |-> TRUE,
   retryCountRef |-> 0, cleanup |-> FALSE, themeChangeListenerRef |-> 0,
   pageContextUnsubscribeRef |-> 0, hostTheme |-> {}, hostPage |-> {}, runs |-> {},
   started |-> 0]

\* EventServiceTab: useState([]), useState('demo-channel'), useState(false)
\* cleanup: what the cleanup returned by the effect's latest run unsubscribes
evInitial ==
  [phase |-> "new", event |-> FALSE, channel |-> "demo-channel", isListening |-> FALSE,
   messages |-> <<>>, cleanup |-> {}, subs |-> {}, runs |-> 0, received |-> 0]

\* useSettings(service, key, defaultValue): useState(defaultValue), useState(false), useState(null)
skInitial ==
  [phase |-> "new", settingKey |-> "k1", hook |-> stInitial, calls |-> {}, runs |-> 0,
   host |-> [k \in {"k1", "k2"} |-> "undefined"]]

tabIdle ==
  sv = svInitial /\ au = auInitial /\ mw = mwInitial /\ sk = skInitial /\ ev = evInitial

InitState ==
  /\ unit = "state"
  /\ sbIdle /\ apIdle /\ stIdle /\ ehIdle /\ plIdle /\ tabIdle
  /\ psQuiet
  /\ psService \in BOOLEAN
  /\ psHasConfigure \in BOOLEAN
  /\ psAutoLoad \in BOOLEAN
  /\ hostStored \in {Null, 2}

(***************************************************************************)
(* The host's keyed-state capability (configure / saveState / getState /   *)
(* clearState).  A call is first served by the host, which fixes its       *)
(* result, and later continued by the hook.  Any call may also fail for a  *)
(* reason of the host's own ("Network").                                   *)
(***************************************************************************)
hostSaveResults(p) ==
  IF ~hostConfigured THEN {"Configuration"}
  ELSE IF Size(p) > maxStateSize THEN {"SizeLimitExceeded"}
  ELSE {"ok", "Network"}

hostReadResults ==
  IF ~hostConfigured THEN {"Configuration"} ELSE {"ok", "Network"}

HostServe(c) ==
  /\ unit = "state"
  /\ c \in psCalls /\ c.status = "sent"
  /\ \E res \in (IF c.op = "saveState" THEN hostSaveResults(c.arg) ELSE hostReadResults) :
       /\ psCalls' = (psCalls \ {c}) \cup
            {[c EXCEPT !.status = IF res = "ok" THEN "ok" ELSE "err",
                       !.err = IF res = "ok" THEN NoError ELSE res,
                       !.val = IF res = "ok" /\ c.op = "getState" THEN hostStored ELSE Null]}
       /\ hostStored' = IF res # "ok" THEN hostStored
                        ELSE IF c.op = "saveState" THEN c.arg
                        ELSE IF c.op = "clearState" THEN Null
                        ELSE hostStored
  /\ UNCHANGED <<sbVars, apVars, stVars, ehVars, plVars, unit, tabVars, psInst, psPhase, ps, psService, psHasConfigure, psAutoLoad,
                 psGen, psCleanupFns, psRegistered, psUnsubCount,
                 psInvoked, psReturn, hostConfigured>>

(***************************************************************************)
(* usePluginState: pieces of the hook.                                     *)
(***************************************************************************)
\* if (isMountedRef.current) setState(v)
setStateIfMounted(r, v) == IF r.isMountedRef THEN [r EXCEPT !.state = v] ELSE r

\* if (isMountedRef.current) setError(msg)
setErrorIfMounted(r, msg) == IF r.isMountedRef THEN [r EXCEPT !.error = msg] ELSE r

\* mutant of finallyNotLoading: the promise settles with the flag still set
finallyNotLoading_left(r) == r

\* finally { if (isMountedRef.current) setIsLoading(false) }
finallyNotLoading(r) == IF r.isMountedRef THEN [r EXCEPT !.isLoading = FALSE] ELSE r

\* err?.message || fallback
errorMessage(err, fallback) == IF err = "" THEN fallback ELSE err

\* mutant of configureBeforeHookEffects: the hook's effects run first
configureBeforeHookEffects_after(before, after) == before

\* the effects of one commit run in declaration order: the tab's configure
\* effect precedes the effects of usePluginState, so the auto-load sees the
\* service after configure() was invoked
configureBeforeHookEffects(before, after) == after

\* mutant of runsAutoLoad: the autoLoad argument is not looked at
runsAutoLoad_always == psService

\* the auto-load effect runs getState: if (!service || !autoLoad) return
runsAutoLoad == psService /\ psAutoLoad

\* the configure effect of PluginStateServiceTab: if (!services.pluginState?.configure) return
configureInvoked == psService /\ psHasConfigure

\* a call handed to the capability; afterConfigure: configure() had been invoked;
\* sole: no other call of the binding was in flight at any time during this one
newCall(op, arg, cfg) ==
  [op |-> op, arg |-> arg, status |-> "sent", val |-> Null, err |-> NoError,
   afterConfigure |-> cfg, sole |-> psCalls = {}]

\* the calls in flight once another call joins them
overlapped(calls) == {[c EXCEPT !.sole = FALSE] : c \in calls}

\* a call can be issued: the in-flight bound, and no twin of it in flight
CanIssue(op, arg) ==
  /\ Cardinality(psCalls) < MaxInFlight
  /\ \A c \in psCalls : ~(c.op = op /\ c.arg = arg)

newSubs(g) == [j \in 1..3 |-> [gen |-> g, kind |-> SubKinds[j]]]

\* cleanupFns.forEach(fn => fn()): the unsubscribe functions invoked when the
\* k-th one throws (k = 0: none throws)
forEachInvoked(fns, k) == {fns[j] : j \in 1..(IF k = 0 THEN Len(fns) ELSE k)}

\* the subscriptions the host lets go of: those whose unsubscribe returned
forEachReleased(fns, k) == forEachInvoked(fns, k) \ (IF k = 0 THEN {} ELSE {fns[k]})

\* which unsubscribe of a cleanup throws (0: none).  The host whose unsubscribe
\* functions may throw is the host of the unit "subs".
ThrowAt(fns) == {k \in 0..Len(fns) : k <= MaxThrowAt /\ (k = 0 \/ unit = "subs")}

countUnsubs(cnt, ids) ==
  [x \in DOMAIN cnt |-> IF x \in ids THEN cnt[x] + 1 ELSE cnt[x]]

withNewSubs(cnt, subs) ==
  [x \in DOMAIN cnt \cup Range(subs) |-> IF x \in DOMAIN cnt THEN cnt[x] ELSE 0]

(***************************************************************************)
(* The effects of a mount, starting from the hook state r: the tab's       *)
(* configure effect, then the hook's auto-load, subscription and           *)
(* mounted-flag effects.                                                   *)
(***************************************************************************)
MountEffects(r) ==
  /\ runsAutoLoad => CanIssue("getState", Null)
  /\ psService => psGen < MaxRuns
  /\ \E cfgOk \in BOOLEAN :
       /\ (~configureInvoked => ~cfgOk)
       /\ hostConfigured' = (hostConfigured \/ cfgOk)
  /\ psInvoked' = psInvoked \cup (IF configureInvoked THEN {"configure"} ELSE {})
                            \cup (IF runsAutoLoad THEN {"getState"} ELSE {})
  /\ ps' = IF runsAutoLoad
             THEN [r EXCEPT !.isLoading = TRUE, !.error = NoError, !.isMountedRef = TRUE]
             ELSE [r EXCEPT !.isMountedRef = TRUE]
  /\ psCalls' = IF runsAutoLoad
                  THEN overlapped(psCalls) \cup
                         {newCall("getState", Null,
                                  configureBeforeHookEffects("configure" \in psInvoked,
                                                             "configure" \in psInvoked'))}
                  ELSE psCalls
  /\ IF psService
       THEN /\ psGen' = psGen + 1
            /\ psCleanupFns' = newSubs(psGen + 1)
            /\ psRegistered' = psRegistered \cup Range(newSubs(psGen + 1))
            /\ psUnsubCount' = withNewSubs(psUnsubCount, newSubs(psGen + 1))
       ELSE UNCHANGED <<psGen, psCleanupFns, psRegistered, psUnsubCount>>

PS_Mount ==
  /\ unit \in {"state", "subs"} /\ psPhase = "new"
  /\ MountEffects(ps)
  /\ psPhase' = "mounted"
  /\ UNCHANGED <<sbVars, apVars, stVars, ehVars, plVars, unit, tabVars, psInst, psService, psHasConfigure, psAutoLoad, psReturn, hostStored>>

\* a later mount creates a new instance of the component: fresh hook state.
\* It is taken once nothing of the previous instance is left in flight or
\* registered, so that ps always describes one instance.
PS_Remount ==
  /\ unit \in {"state", "subs"} /\ psPhase = "unmounted" /\ psInst < MaxMounts
  /\ psCalls = {} /\ psRegistered = {}
  /\ MountEffects(psInitial)
  /\ psInst' = psInst + 1
  /\ psPhase' = "mounted"
  /\ psReturn' = NoReturn
  /\ UNCHANGED <<sbVars, apVars, stVars, ehVars, plVars, unit, tabVars, psService, psHasConfigure, psAutoLoad, hostStored>>

\* unmount: the cleanup of the subscription effect, then isMountedRef.current = false
PS_Unmount ==
  /\ unit \in {"state", "subs"} /\ psPhase = "mounted"
  /\ \E k \in ThrowAt(psCleanupFns) :
       /\ psRegistered' = psRegistered \ forEachReleased(psCleanupFns, k)
       /\ psUnsubCount' = countUnsubs(psUnsubCount, forEachInvoked(psCleanupFns, k))
  /\ psCleanupFns' = <<>>
  /\ ps' = [ps EXCEPT !.isMountedRef = FALSE]
  /\ psPhase' = "unmounted"
  /\ UNCHANGED <<sbVars, apVars, stVars, ehVars, plVars, unit, tabVars, psInst, psService, psHasConfigure, psAutoLoad,
                 psCalls, psGen, psInvoked, psReturn, hostStored, hostConfigured>>

(***************************************************************************)
(* A re-render with a new service object re-runs the tab's configure       *)
(* effect, the auto-load effect and the subscription effect (after the     *)
(* cleanup of its previous run).                                           *)
(***************************************************************************)
PS_ServiceChanged ==
  /\ unit \in {"state", "subs"} /\ psPhase = "mounted" /\ psService
  /\ psGen < MaxRuns
  /\ runsAutoLoad => CanIssue("getState", Null)
  /\ \E cfgOk \in BOOLEAN :
       /\ (~configureInvoked => ~cfgOk)
       /\ hostConfigured' = (hostConfigured \/ cfgOk)
  /\ psInvoked' = psInvoked \cup (IF configureInvoked THEN {"configure"} ELSE {})
                            \cup (IF runsAutoLoad THEN {"getState"} ELSE {})
  /\ IF runsAutoLoad
       THEN /\ ps' = [ps EXCEPT !.isLoading = TRUE, !.error = NoError]
            /\ psCalls' = overlapped(psCalls) \cup
                 {newCall("getState", Null,
                          configureBeforeHookEffects("configure" \in psInvoked,
                                                     "configure" \in psInvoked'))}
       ELSE UNCHANGED <<ps, psCalls>>
  /\ \E k \in ThrowAt(psCleanupFns) :
       /\ psRegistered' = (psRegistered \ forEachReleased(psCleanupFns, k))
                            \cup Range(newSubs(psGen + 1))
       /\ psUnsubCount' =
            withNewSubs(countUnsubs(psUnsubCount, forEachInvoked(psCleanupFns, k)),
                        newSubs(psGen + 1))
  /\ psGen' = psGen + 1
  /\ psCleanupFns' = newSubs(psGen + 1)
  /\ UNCHANGED <<sbVars, apVars, stVars, ehVars, plVars, unit, tabVars, psInst, psPhase, psService, psHasConfigure, psAutoLoad,
                 psReturn, hostStored>>

\* a re-render with a new errorHandler object re-runs the auto-load effect only
PS_HandlerChanged ==
  /\ unit = "state" /\ psPhase = "mounted"
  /\ runsAutoLoad /\ CanIssue("getState", Null)
  /\ ps' = [ps EXCEPT !.isLoading = TRUE, !.error = NoError]
  /\ psCalls' = overlapped(psCalls) \cup {newCall("getState", Null, "configure" \in psInvoked)}
  /\ psInvoked' = psInvoked \cup {"getState"}
  /\ UNCHANGED <<sbVars, apVars, stVars, ehVars, plVars, unit, tabVars, psInst, psPhase, psService, psHasConfigure, psAutoLoad,
                 psGen, psCleanupFns, psRegistered, psUnsubCount, psReturn,
                 hostStored, hostConfigured>>

(***************************************************************************)
(* saveState(newState) and clearState(), up to the await.                  *)
(***************************************************************************)
\* const isAvailable = !!service
isAvailable == psService

\* if (!service) { setError(...); handleError(...); return }
saveStateIssues == psService

clearStateIssues == psService

PS_saveState(p) ==
  /\ unit = "state" /\ psPhase = "mounted"
  /\ IF saveStateIssues
       THEN /\ CanIssue("saveState", p)
            /\ ps' = [ps EXCEPT !.isLoading = TRUE, !.error = NoError]
            /\ psCalls' = overlapped(psCalls) \cup {newCall("saveState", p, "configure" \in psInvoked)}
            /\ psInvoked' = psInvoked \cup {"saveState"}
            /\ UNCHANGED psReturn
       ELSE /\ ps' = [ps EXCEPT !.error = "PluginState service is not available"]
            /\ psReturn' = [op |-> "saveState", outcome |-> "resolved",
                            err |-> "PluginState service is not available",
                            sole |-> FALSE, report |-> "FALLBACK/HIGH"]
            /\ UNCHANGED <<psCalls, psInvoked>>
  /\ UNCHANGED <<sbVars, apVars, stVars, ehVars, plVars, unit, tabVars, psInst, psPhase, psService, psHasConfigure, psAutoLoad,
                 psGen, psCleanupFns, psRegistered, psUnsubCount, hostStored, hostConfigured>>

PS_clearState ==
  /\ unit = "state" /\ psPhase = "mounted"
  /\ IF clearStateIssues
       THEN /\ CanIssue("clearState", Null)
            /\ ps' = [ps EXCEPT !.isLoading = TRUE, !.error = NoError]
            /\ psCalls' = overlapped(psCalls) \cup {newCall("clearState", Null, "configure" \in psInvoked)}
            /\ psInvoked' = psInvoked \cup {"clearState"}
            /\ UNCHANGED psReturn
       ELSE /\ ps' = [ps EXCEPT !.error = "PluginState service is not available"]
            /\ psReturn' = [op |-> "clearState", outcome |-> "resolved",
                            err |-> "PluginState service is not available",
                            sole |-> FALSE, report |-> "FALLBACK/MEDIUM"]
            /\ UNCHANGED <<psCalls, psInvoked>>
  /\ UNCHANGED <<sbVars, apVars, stVars, ehVars, plVars, unit, tabVars, psInst, psPhase, psService, psHasConfigure, psAutoLoad,
                 psGen, psCleanupFns, psRegistered, psUnsubCount, hostStored, hostConfigured>>

(***************************************************************************)
(* The continuations after the await.                                      *)
(***************************************************************************)
\* loadState: try { setState(loadedState) } catch { setError } finally { ... }
loadStateDone(r, c) ==
  finallyNotLoading(
    IF c.status = "ok" THEN setStateIfMounted(r, c.val)
    ELSE setErrorIfMounted(r, errorMessage(c.err, "Failed to load plugin state")))

\* mutants of saveStateDone: a save that publishes nothing, and a save that
\* publishes its argument before it knows the outcome
saveStateDone_silent(r, c) ==
  finallyNotLoading(
    IF c.status = "ok" THEN r
    ELSE setErrorIfMounted(r, errorMessage(c.err, "Failed to save plugin state")))

saveStateDone_optimistic(r, c) ==
  finallyNotLoading(
    IF c.status = "ok" THEN setStateIfMounted(r, c.arg)
    ELSE setErrorIfMounted(setStateIfMounted(r, c.arg),
                           errorMessage(c.err, "Failed to save plugin state")))

\* mutant of saveStateDone: a save creates the snapshot but never replaces one
saveStateDone_createOnly(r, c) ==
  finallyNotLoading(
    IF c.status = "ok" THEN (IF r.state = Null THEN setStateIfMounted(r, c.arg) ELSE r)
    ELSE setErrorIfMounted(r, errorMessage(c.err, "Failed to save plugin state")))

\* saveState: try { setState(newState) } catch { setError; throw } finally { ... }
saveStateDone(r, c) ==
  finallyNotLoading(
    IF c.status = "ok" THEN setStateIfMounted(r, c.arg)
    ELSE setErrorIfMounted(r, errorMessage(c.err, "Failed to save plugin state")))

\* clearState: try { setState(null) } catch { setError; throw } finally { ... }
clearStateDone(r, c) ==
  finallyNotLoading(
    IF c.status = "ok" THEN setStateIfMounted(r, Null)
    ELSE setErrorIfMounted(r, errorMessage(c.err, "Failed to clear plugin state")))

\* mutant of loadStateOutcome: the catch of loadState rethrows
loadStateOutcome_rethrow(c) == IF c.status = "ok" THEN "resolved" ELSE "rejected"

\* how the promise of the hook's function settles
loadStateOutcome(c) == "resolved"

\* mutant of saveStateOutcome: the catch swallows the error
saveStateOutcome_swallow(c) == "resolved"

saveStateOutcome(c) == IF c.status = "ok" THEN "resolved" ELSE "rejected"

clearStateOutcome(c) == IF c.status = "ok" THEN "resolved" ELSE "rejected"

Settle(c, r, outcome, report) ==
  /\ unit = "state"
  /\ c \in psCalls /\ c.status # "sent"
  /\ ps' = r
  /\ psCalls' = psCalls \ {c}
  /\ psReturn' = [op |-> c.op, outcome |-> outcome, err |-> c.err, sole |-> c.sole,
                  report |-> IF c.status = "err" THEN report ELSE "none"]
  /\ UNCHANGED <<sbVars, apVars, stVars, ehVars, plVars, unit, tabVars, psInst, psPhase, psService, psHasConfigure, psAutoLoad,
                 psGen, psCleanupFns, psRegistered, psUnsubCount,
                 psInvoked, hostStored, hostConfigured>>

PS_loadStateSettled(c) ==
  /\ c.op = "getState"
  /\ Settle(c, loadStateDone(ps, c), loadStateOutcome(c), "RETRY/MEDIUM")

PS_saveStateSettled(c) ==
  /\ c.op = "saveState"
  /\ Settle(c, saveStateDone(ps, c), saveStateOutcome(c), "RETRY/HIGH")

PS_clearStateSettled(c) ==
  /\ c.op = "clearState"
  /\ Settle(c, clearStateDone(ps, c), clearStateOutcome(c), "RETRY/MEDIUM")

(***************************************************************************)
(* A push of the host to one subscription it still holds.                  *)
(***************************************************************************)
PushValues == {2}

SavedValues == {1, 3}

\* onSave/onRestore hand the pushed state to setState, onClear sets null
pushedValue(kind, v) == IF kind = "onClear" THEN Null ELSE v

PS_Push(sub, v) ==
  /\ unit \in {"state", "subs"}
  /\ sub \in psRegistered
  /\ ps' = setStateIfMounted(ps, pushedValue(sub.kind, v))
  /\ psReturn' = [NoReturn EXCEPT !.op = "push"]
  /\ UNCHANGED <<sbVars, apVars, stVars, ehVars, plVars, unit, tabVars, psInst, psPhase, psService, psHasConfigure, psAutoLoad,
                 psCalls, psGen, psCleanupFns, psRegistered, psUnsubCount,
                 psInvoked, hostStored, hostConfigured>>

NextState ==
  \/ PS_Mount
  \/ PS_Remount
  \/ PS_Unmount
  \/ PS_ServiceChanged
  \/ PS_HandlerChanged
  \/ \E p \in SavedValues : PS_saveState(p)
  \/ PS_clearState
  \/ \E c \in psCalls : HostServe(c)
  \/ \E c \in psCalls : PS_loadStateSettled(c)
  \/ \E c \in psCalls : PS_saveStateSettled(c)
  \/ \E c \in psCalls : PS_clearStateSettled(c)
  \/ \E sub \in psRegistered, v \in PushValues : PS_Push(sub, v)

SpecState == InitState /\ [][NextState]_vars

(***************************************************************************)
(* The unit "subs": a UI unit that binds usePluginState(service, handler,  *)
(* false) for its subscriptions only and never saves or clears, on a host  *)
(* whose unsubscribe functions may throw.                                  *)
(***************************************************************************)
InitSubs ==
  /\ unit = "subs"
  /\ sbIdle /\ apIdle /\ stIdle /\ ehIdle /\ plIdle /\ tabIdle
  /\ psQuiet
  /\ psService \in BOOLEAN
  /\ psHasConfigure = FALSE /\ psAutoLoad = FALSE
  /\ hostStored = Null

NextSubs ==
  \/ PS_Mount
  \/ PS_Remount
  \/ PS_Unmount
  \/ PS_ServiceChanged
  \/ \E sub \in psRegistered, v \in PushValues : PS_Push(sub, v)

SpecSubs == InitSubs /\ [][NextSubs]_vars


(***************************************************************************)
(* useTheme and usePageContext.  Both read the current value, publish it   *)
(* and register one change listener in an effect, and release it in the    *)
(* effect's cleanup.  The host may throw from any of its methods.          *)
(***************************************************************************)
\* useState('light') / useState(null)
sbInitialValue(u) == IF u = "theme" THEN "light" ELSE "null"

sbValues(u) == IF u = "theme" THEN {"light", "dark"} ELSE {"null", "pageA", "pageB"}

InitBinding(u) ==
  /\ unit = u
  /\ psIdle /\ apIdle /\ stIdle /\ ehIdle /\ plIdle /\ tabIdle
  /\ sbPhase = "new"
  /\ sbService \in BOOLEAN
  /\ sbHandler \in BOOLEAN
  /\ sbValue = sbInitialValue(u)
  /\ sbRef = 0 /\ sbGen = 0
  /\ sbRegistered = {} /\ sbEverRegistered = {}
  /\ sbReleaseCount = [l \in 1..MaxRuns |-> 0]
  /\ sbInvoked = {}
  /\ sbHost \in sbValues(u)
  /\ sbReturn = NoSbReturn

\* errorHandler ? errorHandler.safeSync(() => read(), fallback) : read()
\* "thrown": the read threw and nothing caught it before initTheme's own catch
readCurrent(readThrows) ==
  IF ~readThrows THEN sbHost
  ELSE IF sbHandler THEN sbInitialValue(unit)
  ELSE "thrown"

\* the body of a push handler: setCurrentTheme(newTheme) / setPageContext(newContext)
listenerWrites(old, new) == new

\* initTheme: listenerRef.current = listener; addThemeChangeListener(listenerRef.current)
initThemeRef(l, addThrows) == l

\* initPageContext: unsubscribeRef.current = onPageContextChange(...)
initPageContextRef(l, subscribeThrows) == IF subscribeThrows THEN sbRef ELSE l

\* the effect body, run number l
SB_init(l, readThrows, registerThrows) ==
  IF readCurrent(readThrows) = "thrown"
    THEN /\ sbInvoked' = sbInvoked \cup {"getCurrent"}
         /\ UNCHANGED <<sbValue, sbRef, sbRegistered, sbEverRegistered>>
    ELSE /\ sbInvoked' = sbInvoked \cup {"getCurrent", "register"}
         /\ sbValue' = readCurrent(readThrows)
         /\ sbRef' = IF unit = "theme" THEN initThemeRef(l, registerThrows)
                     ELSE initPageContextRef(l, registerThrows)
         /\ sbRegistered' = IF registerThrows THEN sbRegistered ELSE sbRegistered \cup {l}
         /\ sbEverRegistered' = IF registerThrows THEN sbEverRegistered
                                ELSE sbEverRegistered \cup {l}

\* the cleanup: if (ref.current) try { release(ref.current); ref.current = null } catch {}
cleanupReleases(ref) == ref # 0

cleanupRef(ref, releaseThrows) == IF releaseThrows THEN ref ELSE 0

SB_Mount ==
  /\ unit \in {"theme", "page"} /\ sbPhase = "new"
  /\ sbPhase' = "mounted"
  /\ IF sbService
       THEN /\ sbGen' = sbGen + 1
            /\ \E readThrows \in BOOLEAN, registerThrows \in BOOLEAN :
                 SB_init(sbGen + 1, readThrows, registerThrows)
       ELSE UNCHANGED <<sbGen, sbValue, sbRef, sbRegistered, sbEverRegistered, sbInvoked>>
  /\ UNCHANGED <<psVars, apVars, stVars, ehVars, plVars, unit, tabVars, sbService, sbHandler, sbReleaseCount, sbHost, sbReturn>>

\* a re-render with a new service or errorHandler object: cleanup, then the effect again
SB_DepsChanged ==
  /\ unit \in {"theme", "page"} /\ sbPhase = "mounted" /\ sbService
  /\ sbGen < MaxRuns
  /\ sbGen' = sbGen + 1
  /\ \E releaseThrows \in BOOLEAN, readThrows \in BOOLEAN, registerThrows \in BOOLEAN :
       LET released == cleanupReleases(sbRef)
           ref1 == IF released THEN cleanupRef(sbRef, releaseThrows) ELSE sbRef
           reg1 == IF released /\ ~releaseThrows THEN sbRegistered \ {sbRef} ELSE sbRegistered
           l == sbGen + 1
       IN /\ (~released => ~releaseThrows)
          /\ sbReleaseCount' = IF released THEN [sbReleaseCount EXCEPT ![sbRef] = @ + 1]
                               ELSE sbReleaseCount
          /\ IF readCurrent(readThrows) = "thrown"
               THEN /\ sbInvoked' = sbInvoked \cup {"getCurrent"}
                                      \cup (IF released THEN {"release"} ELSE {})
                    /\ sbRef' = ref1
                    /\ sbRegistered' = reg1
                    /\ UNCHANGED <<sbValue, sbEverRegistered>>
               ELSE /\ sbInvoked' = sbInvoked \cup {"getCurrent", "register"}
                                      \cup (IF released THEN {"release"} ELSE {})
                    /\ sbValue' = readCurrent(readThrows)
                    /\ sbRef' = IF unit = "theme" THEN initThemeRef(l, registerThrows)
                                ELSE IF registerThrows THEN ref1 ELSE l
                    /\ sbRegistered' = IF registerThrows THEN reg1 ELSE reg1 \cup {l}
                    /\ sbEverRegistered' = IF registerThrows THEN sbEverRegistered
                                           ELSE sbEverRegistered \cup {l}
  /\ UNCHANGED <<psVars, apVars, stVars, ehVars, plVars, unit, tabVars, sbPhase, sbService, sbHandler, sbHost, sbReturn>>

SB_Unmount ==
  /\ unit \in {"theme", "page"} /\ sbPhase = "mounted"
  /\ sbPhase' = "unmounted"
  /\ IF sbService /\ cleanupReleases(sbRef)
       THEN \E releaseThrows \in BOOLEAN :
              /\ sbReleaseCount' = [sbReleaseCount EXCEPT ![sbRef] = @ + 1]
              /\ sbRef' = cleanupRef(sbRef, releaseThrows)
              /\ sbRegistered' = IF releaseThrows THEN sbRegistered ELSE sbRegistered \ {sbRef}
              /\ sbInvoked' = sbInvoked \cup {"release"}
       ELSE UNCHANGED <<sbReleaseCount, sbRef, sbRegistered, sbInvoked>>
  /\ UNCHANGED <<psVars, apVars, stVars, ehVars, plVars, unit, tabVars, sbService, sbHandler, sbValue, sbGen, sbEverRegistered, sbHost, sbReturn>>

\* the host changes its value and notifies one listener it still holds
SB_Push(l, v) ==
  /\ unit \in {"theme", "page"}
  /\ l \in sbRegistered
  /\ sbHost' = v
  /\ sbValue' = listenerWrites(sbValue, v)
  /\ UNCHANGED <<psVars, apVars, stVars, ehVars, plVars, unit, tabVars, sbPhase, sbService, sbHandler, sbRef, sbGen, sbRegistered,
                 sbEverRegistered, sbReleaseCount, sbInvoked, sbReturn>>

\* isAvailable: !!themeService / !!pageContextService
sbIsAvailable == sbService

\* setTheme(theme) / toggleTheme(): if (!themeService) return; try { call } catch {}
setThemeCalls == sbService

\* mutant of setThemeOutcome: no try/catch around the call of the service
setThemeOutcome_uncaught(throws) == IF throws THEN "threw" ELSE "returned"

\* try { themeService.setTheme(theme) } catch (error) { console.error(...) }
setThemeOutcome(throws) == "returned"

SB_setTheme(method, v) ==
  /\ unit = "theme" /\ sbPhase = "mounted"
  /\ IF setThemeCalls
       THEN /\ sbInvoked' = sbInvoked \cup {method}
            /\ \E throws \in BOOLEAN :
                 /\ sbHost' = IF throws THEN sbHost ELSE v
                 /\ sbReturn' = [op |-> method, hostThrew |-> throws,
                                 outcome |-> setThemeOutcome(throws)]
       ELSE /\ sbReturn' = [op |-> method, hostThrew |-> FALSE, outcome |-> "returned"]
            /\ UNCHANGED <<sbInvoked, sbHost>>
  /\ UNCHANGED <<psVars, apVars, stVars, ehVars, plVars, unit, tabVars, sbPhase, sbService, sbHandler, sbValue, sbRef, sbGen,
                 sbRegistered, sbEverRegistered, sbReleaseCount>>

NextBinding ==
  \/ SB_Mount
  \/ SB_DepsChanged
  \/ SB_Unmount
  \/ \E l \in sbRegistered, v \in sbValues(unit) : SB_Push(l, v)
  \/ \E v \in {"light", "dark"} : SB_setTheme("setTheme", v)
  \/ SB_setTheme("toggleTheme", IF sbHost = "light" THEN "dark" ELSE "light")

SpecBinding == (InitBinding("theme") \/ InitBinding("page")) /\ [][NextBinding]_vars

(***************************************************************************)
(* useAPI.  The hook has no effect and no mounted flag: its verbs are      *)
(* called by the UI unit, each call is served by the host and continued by *)
(* the hook.                                                               *)
(***************************************************************************)
Verbs == {"get", "post", "put", "delete", "postStreaming"}

url == "/api/data"

\* what the host's promise resolves with: null/undefined, a value that is not
\* an object (its .data is undefined), or an ApiResponse object with data
NoResponse == [kind |-> "none", data |-> "undefined"]

Responses ==
  {[kind |-> "null", data |-> "undefined"], [kind |-> "scalar", data |-> "undefined"]}
    \cup {[kind |-> "object", data |-> d] : d \in {"A"}}

\* what the host's promise rejects with: an Error with a message, or another value
Rejections == {"Network", "nonError"}

\* The unit "api" calls any verb with any capability and stays mounted.  The
\* unit "overlap" has the capability, calls get and post, and may unmount
\* with calls in flight; for its calls the model also records how a call
\* stands to the calls it overlaps (issued): "alone", "before" (a later call
\* was issued while it was in flight) or "after" (issued while an earlier
\* call was in flight).
InitApi ==
  /\ unit = "api"
  /\ psIdle /\ sbIdle /\ stIdle /\ ehIdle /\ plIdle /\ tabIdle
  /\ apQuiet
  /\ apService \in BOOLEAN
  /\ apStreaming \in BOOLEAN
  /\ apService = FALSE => apStreaming = FALSE

InitOverlap ==
  /\ unit = "overlap"
  /\ psIdle /\ sbIdle /\ stIdle /\ ehIdle /\ plIdle /\ tabIdle
  /\ apQuiet
  /\ apService = TRUE
  /\ apStreaming = FALSE

unitVerbs == IF unit = "overlap" THEN {"get", "post"} ELSE Verbs

\* the calls in flight once a later call is issued
superseded(calls) ==
  IF unit = "overlap" THEN {[c EXCEPT !.issued = "before"] : c \in calls} ELSE calls

issuedAs(calls) == IF unit = "overlap" /\ calls # {} THEN "after" ELSE "alone"

\* setState((prev) => ({ ...prev, loading }))
setLoading(r, loading) == [r EXCEPT !.loading = loading]

\* mutant of setData: the previous error survives
setData_merge(r, data) == [r EXCEPT !.data = data, !.loading = FALSE]

\* setState({ data, loading: false, error: null })
setData(r, data) == [data |-> data, loading |-> FALSE, error |-> "null"]

\* setState((prev) => ({ ...prev, loading: false, error }))
setError(r, error) == [r EXCEPT !.loading = FALSE, !.error = error]

\* setState((prev) => ({ ...prev, error: null }))
clearError(r) == [r EXCEPT !.error = "null"]

\* isAvailable: !!apiService
apIsAvailable == apService

\* mutant of verbIssues: the guard is missing
verbIssues_unguarded(verb) == TRUE

\* if (!apiService) / if (!apiService || !apiService.postStreaming)
verbIssues(verb) == apService /\ (verb = "postStreaming" => apStreaming)

unavailableMessage(verb) ==
  IF verb = "postStreaming" THEN "Streaming API not available" ELSE "API service not available"

\* what a verb returns when it gives up
failureValue(verb) == IF verb = "delete" THEN "false" ELSE "null"

verbLabel(verb) ==
  CASE verb = "get" -> "GET"
    [] verb = "post" -> "POST"
    [] verb = "put" -> "PUT"
    [] verb = "delete" -> "DELETE"
    [] OTHER -> "POST (streaming)"

\* err instanceof Error ? err.message : 'Unknown error'
caughtMessage(c) ==
  IF c.status = "rejected"
    THEN (IF c.message = "nonError" THEN "Unknown error" ELSE c.message)
  ELSE IF c.verb = "postStreaming" THEN "TypeError"
  ELSE "Invalid response format"

\* `${VERB} ${url} failed: ${message}`
failedMessage(c) == verbLabel(c.verb) \o " " \o url \o " failed: " \o caughtMessage(c)

\* !response || typeof response !== 'object'
invalidResponse(resp) == resp.kind # "object"

\* the try block of a verb runs to its end
verbSucceeds(c) ==
  /\ c.status = "resolved"
  /\ CASE c.verb \in {"get", "post", "put"} -> ~invalidResponse(c.resp)
       [] c.verb = "delete" -> TRUE
       [] OTHER -> c.resp.kind # "null"

\* get, post, put: setData(response.data), or setError in the catch
getDone(r, c) ==
  IF verbSucceeds(c) THEN setData(r, c.resp.data) ELSE setError(r, failedMessage(c))

\* delete: setState({ data: null, loading: false, error: null }), or setError
delDone(r, c) ==
  IF verbSucceeds(c) THEN [data |-> "null", loading |-> FALSE, error |-> "null"]
  ELSE setError(r, failedMessage(c))

\* postStreaming: setData(response.data) with no check of the response
postStreamingDone(r, c) ==
  IF verbSucceeds(c) THEN setData(r, c.resp.data) ELSE setError(r, failedMessage(c))

\* mutant of verbDone: the result of a call is dropped once a later call was issued
verbDone_latestIssued(r, c) ==
  IF c.issued = "before" THEN r
  ELSE IF c.verb = "delete" THEN delDone(r, c)
  ELSE getDone(r, c)

verbDone(r, c) ==
  CASE c.verb \in {"get", "post", "put"} -> getDone(r, c)
    [] c.verb = "delete" -> delDone(r, c)
    [] OTHER -> postStreamingDone(r, c)

\* what the verb's promise resolves with
verbValue(c) ==
  IF ~verbSucceeds(c) THEN failureValue(c.verb)
  ELSE IF c.verb = "delete" THEN "true"
  ELSE c.resp.data

\* every path of a verb ends in a return: the catch never rethrows
verbOutcome(c) == "resolved"

apCanIssue(verb) ==
  /\ Cardinality(apCalls) < MaxInFlight
  /\ \A c \in apCalls : c.verb # verb

\* a verb up to its await: the capability method is invoked once, there
AP_call(verb) ==
  /\ unit \in {"api", "overlap"} /\ verb \in unitVerbs
  /\ apMounted
  /\ IF verbIssues(verb)
       THEN /\ apCanIssue(verb)
            /\ ap' = clearError(setLoading(ap, TRUE))
            /\ apCalls' = superseded(apCalls) \cup
                 {[verb |-> verb, status |-> "sent", resp |-> NoResponse, message |-> "",
                   invocations |-> 1, issued |-> issuedAs(apCalls)]}
            /\ apInvoked' = apInvoked \cup {verb}
            /\ UNCHANGED apReturn
       ELSE /\ ap' = setError(ap, unavailableMessage(verb))
            /\ apReturn' = [verb |-> verb, outcome |-> "resolved", value |-> failureValue(verb),
                             issued |-> "alone"]
            /\ UNCHANGED <<apCalls, apInvoked>>
  /\ UNCHANGED <<psVars, sbVars, stVars, ehVars, plVars, unit, tabVars, apMounted, apService, apStreaming>>

\* the host resolves or rejects the promise of a call
AP_HostServe(c) ==
  /\ unit \in {"api", "overlap"}
  /\ c \in apCalls /\ c.status = "sent"
  /\ \/ \E resp \in Responses :
          apCalls' = (apCalls \ {c}) \cup {[c EXCEPT !.status = "resolved", !.resp = resp]}
     \/ \E m \in Rejections :
          apCalls' = (apCalls \ {c}) \cup {[c EXCEPT !.status = "rejected", !.message = m]}
  /\ UNCHANGED <<psVars, sbVars, stVars, ehVars, plVars, unit, tabVars, apMounted, apService, apStreaming, ap, apInvoked, apReturn>>

\* the continuation of a verb after its await
AP_Settled(c) ==
  /\ unit \in {"api", "overlap"}
  /\ c \in apCalls /\ c.status # "sent"
  /\ ap' = verbDone(ap, c)
  /\ apCalls' = apCalls \ {c}
  /\ apReturn' = [verb |-> c.verb, outcome |-> verbOutcome(c), value |-> verbValue(c),
                  issued |-> c.issued]
  /\ UNCHANGED <<psVars, sbVars, stVars, ehVars, plVars, unit, tabVars, apMounted, apService, apStreaming, apInvoked>>

\* the clearError the hook returns
AP_clearError ==
  /\ unit \in {"api", "overlap"}
  /\ apMounted
  /\ ap' = clearError(ap)
  /\ UNCHANGED <<psVars, sbVars, stVars, ehVars, plVars, unit, tabVars, apMounted, apService, apStreaming, apCalls, apInvoked, apReturn>>

\* the UI unit unmounts: useAPI has no effect, so nothing of the hook runs
AP_Unmount ==
  /\ unit = "overlap"
  /\ apMounted
  /\ apMounted' = FALSE
  /\ UNCHANGED <<psVars, sbVars, stVars, ehVars, plVars, unit, tabVars, apService, apStreaming, ap,
                 apCalls, apInvoked, apReturn>>

NextApi ==
  \/ \E verb \in Verbs : AP_call(verb)
  \/ \E c \in apCalls : AP_HostServe(c)
  \/ \E c \in apCalls : AP_Settled(c)
  \/ AP_clearError

NextOverlap == NextApi \/ AP_Unmount

SpecOverlap == InitOverlap /\ [][NextOverlap]_vars

SpecApi == InitApi /\ [][NextApi]_vars

(***************************************************************************)
(* useSettings.  A load effect on mount and on a change of service or key, *)
(* and three functions: setValue (updateValue), getSetting, setSetting.    *)
(* The hook has no cleanup and no mounted flag.                            *)
(***************************************************************************)
settingKey == "key"

\* what the host may hold for the key
StoredValues == {"undefined", "null", "V1"}

\* what the UI unit writes
NewValues == {"V2"}

InitSettings ==
  /\ unit = "settings"
  /\ psIdle /\ sbIdle /\ apIdle /\ ehIdle /\ plIdle /\ tabIdle
  /\ stQuiet
  /\ stService \in BOOLEAN
  /\ stMethods \in BOOLEAN
  /\ stKey \in BOOLEAN
  /\ stService = FALSE => stMethods = FALSE
  /\ stHost \in StoredValues

\* the unit "validated" binds useSettingsWithValidation and calls its setValue
InitValidated ==
  /\ unit = "validated"
  /\ psIdle /\ sbIdle /\ apIdle /\ ehIdle /\ plIdle /\ tabIdle
  /\ stQuiet
  /\ stService \in BOOLEAN
  /\ stMethods \in BOOLEAN
  /\ stKey \in BOOLEAN
  /\ stService = FALSE => stMethods = FALSE
  /\ stHost \in StoredValues

\* isAvailable: !!settingsService
stIsAvailable == stService

\* if (!settingsService || !settingKey) return
loadRuns == stService /\ stKey

\* updateValue: if (!settingsService || !settingKey) return false
updateValueIssues == stService /\ stKey

\* getSetting: if (!settingsService) throw new Error('Settings service not available')
getSettingIssues == stService

\* setSetting: if (!settingsService) return false
setSettingIssues == stService

\* settingsService.getSetting?.(key) / setSetting?.(key, value): a missing
\* method is not invoked and the await continues with undefined
optionalCall(op, method, arg) ==
  [op |-> op, method |-> method, arg |-> arg,
   status |-> IF stMethods THEN "sent" ELSE "resolved",
   val |-> "undefined", message |-> ""]

methodInvoked(method) == IF stMethods THEN {method} ELSE {}

stCanIssue(op) ==
  /\ Cardinality(stCalls) < MaxInFlight
  /\ \A c \in stCalls : c.op # op

\* the load effect: setIsLoading(true); setError(null); await getSetting?.(settingKey)
loadSetting ==
  IF loadRuns
    THEN /\ stCanIssue("load")
         /\ st' = [st EXCEPT !.isLoading = TRUE, !.error = "null"]
         /\ stCalls' = stCalls \cup {optionalCall("load", "getSetting", settingKey)}
         /\ stInvoked' = stInvoked \cup methodInvoked("getSetting")
    ELSE UNCHANGED <<st, stCalls, stInvoked>>

ST_Mount ==
  /\ unit \in {"settings", "validated"} /\ stPhase = "new"
  /\ stPhase' = "mounted"
  /\ loadSetting
  /\ UNCHANGED <<psVars, sbVars, apVars, ehVars, plVars, unit, tabVars, stService, stMethods, stKey, stReturn, stHost>>

\* a re-render with a new service object or another key re-runs the load effect
ST_DepsChanged ==
  /\ unit \in {"settings", "validated"} /\ stPhase = "mounted" /\ loadRuns
  /\ loadSetting
  /\ UNCHANGED <<psVars, sbVars, apVars, ehVars, plVars, unit, tabVars, stPhase, stService, stMethods, stKey,
                 stReturn, stHost>>

\* updateValue(newValue), up to the await
updateValue(v) ==
  IF updateValueIssues
    THEN /\ stCanIssue("setValue")
         /\ st' = [st EXCEPT !.isLoading = TRUE, !.error = "null"]
         /\ stCalls' = stCalls \cup {optionalCall("setValue", "setSetting", v)}
         /\ stInvoked' = stInvoked \cup methodInvoked("setSetting")
         /\ UNCHANGED stReturn
    ELSE /\ stReturn' = [op |-> "setValue", outcome |-> "resolved", value |-> "false"]
         /\ UNCHANGED <<st, stCalls, stInvoked>>

ST_setValue(v) ==
  /\ unit = "settings" /\ stPhase = "mounted"
  /\ updateValue(v)
  /\ UNCHANGED <<psVars, sbVars, apVars, ehVars, plVars, unit, tabVars, stPhase, stService, stMethods, stKey, stHost>>

\* what the validators return for the value: true or a message, in the order
\* of the validators array
ValidatorRuns ==
  UNION {[1..n -> {"true", "E1", "E2"}] : n \in 0..MaxValidators}

\* mutant of firstFailure: the loop runs to its end and the last failure is kept
firstFailure_last(results) ==
  LET bad == {j \in 1..Len(results) : results[j] # "true"}
  IN IF bad = {} THEN 0 ELSE CHOOSE j \in bad : \A k \in bad : k <= j

\* validate: for (const validator of validators) { if (result !== true) ... return false }
\* the index of the validator that stops the loop, 0 when all return true
firstFailure(results) ==
  LET bad == {j \in 1..Len(results) : results[j] # "true"}
  IN IF bad = {} THEN 0 ELSE CHOOSE j \in bad : \A k \in bad : j <= k

\* setValueWithValidation: if (!validate(newValue)) return false;
\* return await settingsHook.setValue(newValue)
ST_setValueWithValidation(v, results) ==
  /\ unit = "validated" /\ stPhase = "mounted"
  /\ IF firstFailure(results) # 0
       THEN /\ sv' = [isValid |-> FALSE, validationError |-> results[firstFailure(results)]]
            /\ stReturn' = [op |-> "setValue", outcome |-> "resolved", value |-> "false"]
            /\ UNCHANGED <<st, stCalls, stInvoked>>
       ELSE /\ sv' = [isValid |-> TRUE, validationError |-> "null"]
            /\ updateValue(v)
  /\ UNCHANGED <<psVars, sbVars, apVars, ehVars, plVars, unit, au, mw, sk, ev, stPhase, stService, stMethods, stKey, stHost>>

ST_getSetting ==
  /\ unit = "settings" /\ stPhase = "mounted"
  /\ IF getSettingIssues
       THEN /\ stCanIssue("getSetting")
            /\ stCalls' = stCalls \cup {optionalCall("getSetting", "getSetting", settingKey)}
            /\ stInvoked' = stInvoked \cup methodInvoked("getSetting")
            /\ UNCHANGED stReturn
       ELSE /\ stReturn' = [op |-> "getSetting", outcome |-> "rejected",
                            value |-> "Settings service not available"]
            /\ UNCHANGED <<stCalls, stInvoked>>
  /\ UNCHANGED <<psVars, sbVars, apVars, ehVars, plVars, unit, tabVars, stPhase, stService, stMethods, stKey, st, stHost>>

ST_setSetting(v) ==
  /\ unit = "settings" /\ stPhase = "mounted"
  /\ IF setSettingIssues
       THEN /\ stCanIssue("setSetting")
            /\ stCalls' = stCalls \cup {optionalCall("setSetting", "setSetting", v)}
            /\ stInvoked' = stInvoked \cup methodInvoked("setSetting")
            /\ UNCHANGED stReturn
       ELSE /\ stReturn' = [op |-> "setSetting", outcome |-> "resolved", value |-> "false"]
            /\ UNCHANGED <<stCalls, stInvoked>>
  /\ UNCHANGED <<psVars, sbVars, apVars, ehVars, plVars, unit, tabVars, stPhase, stService, stMethods, stKey, st, stHost>>

\* the host resolves or rejects the promise of a call
ST_HostServe(c) ==
  /\ unit \in {"settings", "validated"}
  /\ c \in stCalls /\ c.status = "sent"
  /\ \/ /\ stCalls' = (stCalls \ {c}) \cup
             {[c EXCEPT !.status = "resolved",
                        !.val = IF c.method = "getSetting" THEN stHost ELSE "undefined"]}
        /\ stHost' = IF c.method = "setSetting" THEN c.arg ELSE stHost
     \/ /\ \E m \in {"Network", "not found"} :
             stCalls' = (stCalls \ {c}) \cup {[c EXCEPT !.status = "rejected", !.message = m]}
        /\ UNCHANGED stHost
  /\ UNCHANGED <<psVars, sbVars, apVars, ehVars, plVars, unit, tabVars, stPhase, stService, stMethods, stKey, st,
                 stInvoked, stReturn>>

\* mutant of loadSettingDone: whatever the load returns is published
loadSettingDone_overwrite(r, c) ==
  [(IF c.status = "rejected" THEN [r EXCEPT !.error = "Failed to load setting 'key'"]
    ELSE [r EXCEPT !.value = c.val]) EXCEPT !.isLoading = FALSE]

\* loadSetting after the await
loadSettingDone(r, c) ==
  [(IF c.status = "rejected" THEN [r EXCEPT !.error = "Failed to load setting 'key'"]
    ELSE IF c.val \notin {"undefined", "null"} THEN [r EXCEPT !.value = c.val]
    ELSE r) EXCEPT !.isLoading = FALSE]

\* err instanceof Error && err.message.includes('not found')
saveErrorMessage(c) ==
  IF c.message = "not found"
    THEN "Failed to save setting 'key' - Setting 'key' must be registered"
    ELSE "Failed to save setting 'key'"

\* updateValue after the await
updateValueDone(r, c) ==
  [(IF c.status = "rejected" THEN [r EXCEPT !.error = saveErrorMessage(c)]
    ELSE [r EXCEPT !.value = c.arg]) EXCEPT !.isLoading = FALSE]

\* getSetting and setSetting publish nothing
stDone(r, c) ==
  CASE c.op = "load" -> loadSettingDone(r, c)
    [] c.op = "setValue" -> updateValueDone(r, c)
    [] OTHER -> r

\* mutant of stOutcome: setSetting rethrows like getSetting does
stOutcome_rethrow(c) == IF c.status = "rejected" THEN "rejected" ELSE "resolved"

\* how the hook's promise settles: only getSetting rethrows (throw err)
stOutcome(c) ==
  IF c.op = "getSetting" /\ c.status = "rejected" THEN "rejected" ELSE "resolved"

stValue(c) ==
  CASE c.op = "load" -> "undefined"
    [] c.op = "getSetting" -> (IF c.status = "rejected" THEN c.message ELSE c.val)
    [] OTHER -> (IF c.status = "rejected" THEN "false" ELSE "true")

ST_Settled(c) ==
  /\ unit \in {"settings", "validated"}
  /\ c \in stCalls /\ c.status # "sent"
  /\ st' = stDone(st, c)
  /\ stCalls' = stCalls \ {c}
  /\ stReturn' = [op |-> c.op, outcome |-> stOutcome(c), value |-> stValue(c)]
  /\ UNCHANGED <<psVars, sbVars, apVars, ehVars, plVars, unit, tabVars, stPhase, stService, stMethods, stKey,
                 stInvoked, stHost>>

\* the UI unit unmounts: the load effect returns no cleanup, so nothing of the hook runs
ST_Unmount ==
  /\ unit \in {"settings", "validated"} /\ stPhase = "mounted"
  /\ stPhase' = "unmounted"
  /\ UNCHANGED <<psVars, sbVars, apVars, ehVars, plVars, unit, tabVars, stService, stMethods, stKey, st,
                 stCalls, stInvoked, stReturn, stHost>>

NextSettings ==
  \/ ST_Mount
  \/ ST_Unmount
  \/ ST_DepsChanged
  \/ \E v \in NewValues : ST_setValue(v)
  \/ ST_getSetting
  \/ \E v \in NewValues : ST_setSetting(v)
  \/ \E c \in stCalls : ST_HostServe(c)
  \/ \E c \in stCalls : ST_Settled(c)

SpecSettings == InitSettings /\ [][NextSettings]_vars

NextValidated ==
  \/ ST_Mount
  \/ ST_Unmount
  \/ ST_DepsChanged
  \/ \E c \in stCalls : ST_HostServe(c)
  \/ \E c \in stCalls : ST_Settled(c)
  \/ \E v \in NewValues, results \in ValidatorRuns : ST_setValueWithValidation(v, results)

SpecValidated == InitValidated /\ [][NextValidated]_vars

\* the units whose hooks have mutators: useTheme and useSettings
SpecMutators == (InitBinding("theme") \/ InitSettings) /\ [][NextBinding \/ NextSettings]_vars

(***************************************************************************)
(* ErrorHandler.safeAsync, the engine useErrorHandler wraps.  Under RETRY  *)
(* a failed attempt is retried after a backoff while the retry counter of  *)
(* the handler's context is below maxRetries; the counter persists across  *)
(* calls and is reset by resetErrorCounts and by a successful completion.  *)
(* Once the counter has reached maxRetries the error goes to the caller,   *)
(* whose catch surfaces it.  FALLBACK never retries and returns the        *)
(* fallback; ESCALATE never retries and hands the error to the caller.     *)
(***************************************************************************)
Strategies == {"RETRY", "FALLBACK", "ESCALATE"}

engineRetries(c, max) == c.strategy = "RETRY" /\ egRetryCount < max

\* the call after one execution of its operation
engineAttempt(c, ok, max) ==
  [c EXCEPT !.attempts = @ + 1,
            !.phase = IF ok THEN "returned"
                      ELSE IF engineRetries(c, max) THEN "backoff"
                      ELSE IF c.strategy = "FALLBACK" THEN "fellback"
                      ELSE "threw"]

\* the retry counter after one execution
engineCount(c, ok, max) ==
  IF ok THEN 0
  ELSE IF engineRetries(c, max) THEN egRetryCount + 1
  ELSE egRetryCount

\* resetErrorCounts()
resetErrorCounts == 0

\* a call of safeAsync.  clean: the retry counter was 0 when the call started,
\* and since then no other call ran and the counter was not reset
engineCallFrom(strategy, count, calls) ==
  [strategy |-> strategy, phase |-> "running", attempts |-> 0,
   clean |-> count = 0 /\ calls = {}]

engineCall(strategy) == engineCallFrom(strategy, egRetryCount, egCalls)

\* the calls in flight once another call joins them or the counter is reset
disturbed(calls) == {[c EXCEPT !.clean = FALSE] : c \in calls}

\* a call can start: the in-flight bound, and no call of its strategy in flight
engineCanStart(strategy) ==
  /\ Cardinality(egCalls) < MaxInFlight
  /\ \A c \in egCalls : c.strategy # strategy

(***************************************************************************)
(* useErrorHandler.                                                        *)
(***************************************************************************)
\* The unit "errors" wraps its operations in safeAsync under any strategy.
\* The unit "retry" reports its errors itself (handleError), offers the
\* manual retry (handleRetry), and uses safeAsync under FALLBACK only, which
\* is how it stores its retry callback.
InitErrors ==
  /\ unit \in {"errors", "retry"}
  /\ psIdle /\ sbIdle /\ apIdle /\ stIdle /\ plIdle /\ tabIdle
  /\ ehQuiet
  /\ ehMax \in 0..MaxRetriesArg

\* mutant of handleError: the error is logged and not published
handleError_silent(es, context, allowRetry) == es

\* handleError(error, context, allowRetry): setErrorState({...})
handleError(es, context, allowRetry) ==
  [error |-> context,
   retryAvailable |-> allowRetry /\ ehRetryCountRef < ehMax,
   retryCount |-> ehRetryCountRef]

\* clearError(), with retryCountRef.current = ref
clearErrorState(ref) == [error |-> "null", retryAvailable |-> FALSE, retryCount |-> ref]

EH_handleError(allowRetry) ==
  /\ unit = "retry"
  /\ eh' = handleError(eh, "component", allowRetry)
  /\ UNCHANGED <<psVars, sbVars, apVars, stVars, plVars, unit, tabVars, ehMax, ehRetryCountRef, ehCallback,
                 ehRetrying, ehReturn, egCalls, egRetryCount>>

\* mutant of EH_clearError: clearing the error also clears the retry counter
EH_clearError_resets ==
  /\ unit \in {"errors", "retry"}
  /\ ehRetryCountRef' = 0
  /\ eh' = clearErrorState(0)
  /\ UNCHANGED <<psVars, sbVars, apVars, stVars, plVars, unit, tabVars, ehMax, ehCallback,
                 ehRetrying, ehReturn, egCalls, egRetryCount>>

EH_clearError ==
  /\ unit \in {"errors", "retry"}
  /\ eh' = clearErrorState(ehRetryCountRef)
  /\ UNCHANGED <<psVars, sbVars, apVars, stVars, plVars, unit, tabVars, ehMax, ehRetryCountRef, ehCallback,
                 ehRetrying, ehReturn, egCalls, egRetryCount>>

\* resetErrorHandler: retryCountRef = 0; retryCallbackRef = null; resetErrorCounts(); clearError()
EH_resetErrorHandler ==
  /\ unit \in {"errors", "retry"}
  /\ ehRetryCountRef' = 0
  /\ ehCallback' = FALSE
  /\ egRetryCount' = resetErrorCounts
  /\ egCalls' = disturbed(egCalls)
  /\ eh' = clearErrorState(0)
  /\ UNCHANGED <<psVars, sbVars, apVars, stVars, plVars, unit, tabVars, ehMax, ehRetrying, ehReturn>>

\* mutant of EH_handleRetry: the test against maxRetriesRef is left out
EH_handleRetry_unbounded ==
  /\ unit = "retry"
  /\ ehRetryCountRef' = ehRetryCountRef + 1
  /\ eh' = clearErrorState(ehRetryCountRef + 1)
  /\ IF ehCallback
       THEN /\ ehRetrying < MaxInFlight
            /\ ehRetrying' = ehRetrying + 1
            /\ UNCHANGED ehReturn
       ELSE /\ ehReturn' = [NoEhReturn EXCEPT !.op = "handleRetry", !.value = "true"]
            /\ UNCHANGED ehRetrying
  /\ UNCHANGED <<psVars, sbVars, apVars, stVars, plVars, unit, tabVars, ehMax, ehCallback, egCalls, egRetryCount>>

\* handleRetry, up to the await of the retry callback
EH_handleRetry ==
  /\ unit = "retry"
  /\ IF ehRetryCountRef >= ehMax
       THEN /\ eh' = [eh EXCEPT !.retryAvailable = FALSE]
            /\ ehReturn' = [NoEhReturn EXCEPT !.op = "handleRetry", !.value = "false"]
            /\ UNCHANGED <<ehRetryCountRef, ehRetrying>>
       ELSE /\ ehRetryCountRef' = ehRetryCountRef + 1
            /\ eh' = clearErrorState(ehRetryCountRef + 1)
            /\ IF ehCallback
                 THEN /\ ehRetrying < MaxInFlight
                      /\ ehRetrying' = ehRetrying + 1
                      /\ UNCHANGED ehReturn
                 ELSE /\ ehReturn' = [NoEhReturn EXCEPT !.op = "handleRetry", !.value = "true"]
                      /\ UNCHANGED ehRetrying
  /\ UNCHANGED <<psVars, sbVars, apVars, stVars, plVars, unit, tabVars, ehMax, ehCallback, egCalls, egRetryCount>>

\* handleRetry after the await: return true, or handleError(error, 'retry') and false
EH_retryCallbackSettled(ok) ==
  /\ unit = "retry"
  /\ ehRetrying > 0
  /\ ehRetrying' = ehRetrying - 1
  /\ eh' = IF ok THEN eh ELSE handleError(eh, "retry", TRUE)
  /\ ehReturn' = [NoEhReturn EXCEPT !.op = "handleRetry",
                                  !.value = IF ok THEN "true" ELSE "false"]
  /\ UNCHANGED <<psVars, sbVars, apVars, stVars, plVars, unit, tabVars, ehMax, ehRetryCountRef, ehCallback,
                 egCalls, egRetryCount>>

\* safeAsync(fn, strategy, retryCallback), up to the await
EH_safeAsync(strategy, withCallback) ==
  /\ unit = "errors" \/ (unit = "retry" /\ strategy = "FALLBACK")
  /\ engineCanStart(strategy)
  /\ ehCallback' = (ehCallback \/ withCallback)
  /\ egCalls' = disturbed(egCalls) \cup {engineCall(strategy)}
  /\ UNCHANGED <<psVars, sbVars, apVars, stVars, plVars, unit, tabVars, ehMax, eh, ehRetryCountRef,
                 ehRetrying, ehReturn, egRetryCount>>

\* the ErrorHandler executes fn once
EH_Attempt(c, ok) ==
  /\ unit \in {"errors", "retry"}
  /\ c \in egCalls /\ c.phase = "running"
  /\ c.attempts < MaxAttempts
  /\ egCalls' = (egCalls \ {c}) \cup {engineAttempt(c, ok, ehMax)}
  /\ egRetryCount' = engineCount(c, ok, ehMax)
  /\ UNCHANGED <<psVars, sbVars, apVars, stVars, plVars, unit, tabVars, ehMax, eh, ehRetryCountRef,
                 ehCallback, ehRetrying, ehReturn>>

\* the backoff delay of a retry has passed
EH_BackoffElapsed(c) ==
  /\ unit \in {"errors", "retry"}
  /\ c \in egCalls /\ c.phase = "backoff"
  /\ egCalls' = (egCalls \ {c}) \cup {[c EXCEPT !.phase = "running"]}
  /\ UNCHANGED <<psVars, sbVars, apVars, stVars, plVars, unit, tabVars, ehMax, eh, ehRetryCountRef,
                 ehCallback, ehRetrying, ehReturn, egRetryCount>>

\* mutant of safeAsyncDone: a retry is offered whatever the strategy was
safeAsyncDone_anyStrategy(es, c) ==
  IF c.phase = "threw" THEN handleError(es, "safeAsync", TRUE) ELSE es

\* catch (error) { handleError(error, 'safeAsync', strategy === ErrorStrategy.RETRY); return null }
safeAsyncDone(es, c) ==
  IF c.phase = "threw" THEN handleError(es, "safeAsync", c.strategy = "RETRY") ELSE es

safeAsyncValue(c) ==
  IF c.phase = "threw" THEN "null" ELSE IF c.phase = "fellback" THEN "fallback" ELSE "result"

\* safeAsync after the await
EH_safeAsyncSettled(c) ==
  /\ unit \in {"errors", "retry"}
  /\ c \in egCalls /\ c.phase \in {"returned", "fellback", "threw"}
  /\ eh' = safeAsyncDone(eh, c)
  /\ egCalls' = egCalls \ {c}
  /\ ehReturn' = [op |-> c.strategy, value |-> safeAsyncValue(c),
                  attempts |-> c.attempts, clean |-> c.clean]
  /\ UNCHANGED <<psVars, sbVars, apVars, stVars, plVars, unit, tabVars, ehMax, ehRetryCountRef, ehCallback,
                 ehRetrying, egRetryCount>>

\* safeSync(fn, fallback): the ErrorHandler's safeSync returns fn's result or
\* the fallback, or throws; catch { handleError(error, 'safeSync', false); return fallback }
EH_safeSync(threw) ==
  /\ unit \in {"errors", "retry"}
  /\ eh' = IF threw THEN handleError(eh, "safeSync", FALSE) ELSE eh
  /\ UNCHANGED <<psVars, sbVars, apVars, stVars, plVars, unit, tabVars, ehMax, ehRetryCountRef, ehCallback,
                 ehRetrying, ehReturn, egCalls, egRetryCount>>

\* validate(data, validators, context): the ErrorHandler's validate returns the
\* data or throws; catch { handleError(error, 'validation', false); return null }
EH_validate(threw) ==
  /\ unit \in {"errors", "retry"}
  /\ eh' = IF threw THEN handleError(eh, "validation", FALSE) ELSE eh
  /\ UNCHANGED <<psVars, sbVars, apVars, stVars, plVars, unit, tabVars, ehMax, ehRetryCountRef, ehCallback,
                 ehRetrying, ehReturn, egCalls, egRetryCount>>

NextErrors ==
  \/ \E allowRetry \in BOOLEAN : EH_handleError(allowRetry)
  \/ \E threw \in BOOLEAN : EH_safeSync(threw)
  \/ \E threw \in BOOLEAN : EH_validate(threw)
  \/ EH_clearError
  \/ EH_resetErrorHandler
  \/ EH_handleRetry
  \/ \E ok \in BOOLEAN : EH_retryCallbackSettled(ok)
  \/ \E strategy \in Strategies, withCallback \in BOOLEAN : EH_safeAsync(strategy, withCallback)
  \/ \E c \in egCalls, ok \in BOOLEAN : EH_Attempt(c, ok)
  \/ \E c \in egCalls : EH_BackoffElapsed(c)
  \/ \E c \in egCalls : EH_safeAsyncSettled(c)

SpecErrors == InitErrors /\ [][NextErrors]_vars

(***************************************************************************)
(* PluginTemplateFunctional: the initialization effect, the error state    *)
(* and the manual retry.  The component owns an ErrorHandler constructed   *)
(* with maxRetries; the initialization effect depends on isInitializing,   *)
(* so it is cleaned up and run again in the step that changes it.          *)
(***************************************************************************)
\* maxRetriesRef = useRef(3), also the maxRetries of the component's ErrorHandler
maxRetries == 3

InitPlugin ==
  /\ unit = "plugin"
  /\ psIdle /\ sbIdle /\ apIdle /\ stIdle /\ ehIdle /\ tabIdle
  /\ plIdle

\* mutant of handleComponentError: the retry is offered whatever the counter says
handleComponentError_offers(s, context) ==
  [isInitializing |-> FALSE, isLoading |-> FALSE, error |-> context, retryAvailable |-> TRUE]

\* handleComponentError(error, context)
handleComponentError(s, context) ==
  [isInitializing |-> FALSE, isLoading |-> FALSE, error |-> context,
   retryAvailable |-> plRetryCountRef < maxRetries]

\* the wrapped initializer ran to its end:
\* loadInitialData's setIsLoading(false), then setIsInitializing(false), setError(''),
\* setRetryAvailable(false)
initializerDone(s) ==
  [isInitializing |-> FALSE, isLoading |-> FALSE, error |-> "", retryAvailable |-> FALSE]

\* mutant of initializeDone: the effect has no .catch, a rejection changes nothing
initializeDone_uncaught(s, d) ==
  IF d.phase = "returned" THEN initializerDone(s) ELSE s

\* the component's state once the call d of the effect has executed its operation
initializeDone(s, d) ==
  IF d.phase = "returned" THEN initializerDone(s)
  ELSE IF d.phase = "threw" THEN handleComponentError(s, "initialization")
  ELSE s

\* cleanupServices(), when the effect's latest run returned it: resetErrorCounts()
cleanupCount(count) == IF plCleanup THEN resetErrorCounts ELSE count

cleanupCalls(calls) == IF plCleanup THEN disturbed(calls) ELSE calls

\* the first run of the initialization effect
PL_Mount ==
  /\ unit = "plugin"
  /\ plPhase = "new"
  /\ plPhase' = "mounted"
  /\ egCalls' = egCalls \cup {engineCallFrom("RETRY", egRetryCount, egCalls)}
  /\ plCleanup' = TRUE
  /\ UNCHANGED <<psVars, sbVars, apVars, stVars, unit, tabVars, ehMax, eh, ehRetryCountRef, ehCallback,
                 ehRetrying, ehReturn, egRetryCount, pl, plRetryCountRef, plReturn>>

\* the ErrorHandler executes the initializer once; when this ends the call
\* (the initializer succeeded, or the ErrorHandler gave up and the effect's
\* .catch ran handleComponentError), isInitializing becomes false and the
\* mounted component cleans the effect up and runs it again, to no effect
PL_Attempt(c, ok) ==
  /\ unit = "plugin"
  /\ c \in egCalls /\ c.phase = "running"
  /\ c.attempts < MaxAttempts
  /\ LET d == engineAttempt(c, ok, maxRetries)
         rerun == d.phase # "backoff" /\ plPhase = "mounted" /\ pl.isInitializing
     IN /\ egCalls' = IF d.phase = "backoff" THEN (egCalls \ {c}) \cup {d}
                      ELSE IF rerun THEN cleanupCalls(egCalls \ {c})
                      ELSE egCalls \ {c}
        /\ egRetryCount' = IF rerun THEN cleanupCount(engineCount(c, ok, maxRetries))
                           ELSE engineCount(c, ok, maxRetries)
        /\ pl' = initializeDone(pl, d)
        /\ plCleanup' = IF rerun THEN FALSE ELSE plCleanup
        /\ plReturn' = IF d.phase = "backoff" THEN plReturn
                       ELSE [outcome |-> d.phase, attempts |-> d.attempts, clean |-> c.clean]
  /\ UNCHANGED <<psVars, sbVars, apVars, stVars, unit, tabVars, ehMax, eh, ehRetryCountRef, ehCallback,
                 ehRetrying, ehReturn, plPhase, plRetryCountRef>>

\* the backoff delay of a retry has passed
PL_BackoffElapsed(c) ==
  /\ unit = "plugin"
  /\ c \in egCalls /\ c.phase = "backoff"
  /\ egCalls' = (egCalls \ {c}) \cup {[c EXCEPT !.phase = "running"]}
  /\ UNCHANGED <<psVars, sbVars, apVars, stVars, unit, tabVars, ehMax, eh, ehRetryCountRef, ehCallback,
                 ehRetrying, ehReturn, egRetryCount, plVars>>

\* handleRetry, offered by the error display while retryAvailable, and by the
\* display that replaces content which failed to render; an accepted retry
\* sets isInitializing, so the effect runs again and starts a call
PL_handleRetry ==
  /\ unit = "plugin"
  /\ plPhase = "mounted" /\ ~pl.isInitializing
  /\ pl.error # "" => pl.retryAvailable
  /\ IF plRetryCountRef >= maxRetries
       THEN /\ pl' = [pl EXCEPT !.retryAvailable = FALSE]
            /\ UNCHANGED <<plRetryCountRef, plCleanup, egCalls, egRetryCount>>
       ELSE /\ plRetryCountRef' = plRetryCountRef + 1
            /\ pl' = [pl EXCEPT !.isLoading = TRUE, !.error = "", !.isInitializing = TRUE]
            /\ egRetryCount' = cleanupCount(egRetryCount)
            /\ egCalls' = cleanupCalls(egCalls) \cup
                 {engineCallFrom("RETRY", cleanupCount(egRetryCount), egCalls)}
            /\ plCleanup' = TRUE
  /\ UNCHANGED <<psVars, sbVars, apVars, stVars, unit, tabVars, ehMax, eh, ehRetryCountRef, ehCallback,
                 ehRetrying, ehReturn, plPhase, plReturn>>

\* handleDismissError, offered by the error display
PL_handleDismissError ==
  /\ unit = "plugin"
  /\ plPhase = "mounted" /\ ~pl.isInitializing /\ pl.error # ""
  /\ pl' = [pl EXCEPT !.error = "", !.retryAvailable = FALSE]
  /\ UNCHANGED <<psVars, sbVars, apVars, stVars, unit, tabVars, ehMax, eh, ehRetryCountRef, ehCallback,
                 ehRetrying, ehReturn, egCalls, egRetryCount, plPhase, plRetryCountRef,
                 plCleanup, plReturn>>

\* unmount: the effect's cleanup, if its latest run returned one
PL_Unmount ==
  /\ unit = "plugin"
  /\ plPhase = "mounted"
  /\ plPhase' = "unmounted"
  /\ egRetryCount' = cleanupCount(egRetryCount)
  /\ egCalls' = cleanupCalls(egCalls)
  /\ plCleanup' = FALSE
  /\ UNCHANGED <<psVars, sbVars, apVars, stVars, unit, tabVars, ehMax, eh, ehRetryCountRef, ehCallback,
                 ehRetrying, ehReturn, pl, plRetryCountRef, plReturn>>

NextPlugin ==
  \/ PL_Mount
  \/ \E c \in egCalls, ok \in BOOLEAN : PL_Attempt(c, ok)
  \/ \E c \in egCalls : PL_BackoffElapsed(c)
  \/ PL_handleRetry
  \/ PL_handleDismissError
  \/ PL_Unmount

SpecPlugin == InitPlugin /\ [][NextPlugin]_vars

\* the wrapped initializer settles, and a backoff delay passes
SpecPluginLive ==
  /\ SpecPlugin
  /\ WF_vars(\E c \in egCalls, ok \in BOOLEAN : PL_Attempt(c, ok))
  /\ WF_vars(\E c \in egCalls : PL_BackoffElapsed(c))

\* the units that run operations under the ErrorHandler's strategies
SpecResilience == (InitErrors \/ InitPlugin) /\ [][NextErrors \/ NextPlugin]_vars

(***************************************************************************)
(* PluginStateServiceTab: the form, the effect that copies the hook's      *)
(* state into the form, and the auto-save effect with its 1 second timer.  *)
(* The form is one number (counter); its inputs are disabled while the     *)
(* hook's isLoading is true, the auto-save checkbox is not.  Time advances *)
(* in steps of TickMs and cannot pass the expiry of a pending timer.       *)
(***************************************************************************)
InitAutoSave ==
  /\ unit = "autosave"
  /\ psIdle /\ sbIdle /\ apIdle /\ stIdle /\ ehIdle /\ plIdle
  /\ sv = svInitial /\ mw = mwInitial /\ sk = skInitial /\ ev = evInitial
  /\ \E service \in BOOLEAN : au = [auInitial EXCEPT !.service = service]

\* the auto-save effect is cleaned up and run again: clearTimeout(timeoutId);
\* if (!autoSaveEnabled || !services.pluginState) return; setTimeout(() => handleSave(), 1000)
autoSaveEffect(r) ==
  IF r.autoSaveEnabled /\ r.service
    THEN [r EXCEPT !.timer = <<0>>, !.captured = r.counter]
    ELSE [r EXCEPT !.timer = <<>>, !.captured = 0]

\* onClick={() => setCounter(prev => prev + 1)}, disabled={isLoading}
AU_Edit ==
  /\ unit = "autosave" /\ au.phase = "mounted"
  /\ ~au.isLoading /\ au.counter < MaxEdits
  /\ au' = autoSaveEffect([au EXCEPT !.counter = @ + 1, !.edited = au.counter + 1,
                                      !.sinceEdit = 0, !.timerSaves = 0, !.lastArg = <<>>,
                                      !.burst = au.autoSaveEnabled /\ au.service])
  /\ UNCHANGED <<psVars, sbVars, apVars, stVars, ehVars, plVars, unit, sv, mw, sk, ev>>

\* onChange={(e) => setAutoSaveEnabled(e.target.checked)}
AU_ToggleAutoSave ==
  /\ unit = "autosave" /\ au.phase = "mounted"
  /\ au' = autoSaveEffect([au EXCEPT !.autoSaveEnabled = ~@, !.burst = FALSE,
                                      !.timerSaves = 0, !.lastArg = <<>>])
  /\ UNCHANGED <<psVars, sbVars, apVars, stVars, ehVars, plVars, unit, sv, mw, sk, ev>>

\* TickMs pass
AU_Tick ==
  /\ unit = "autosave"
  /\ IF au.timer = <<>> THEN TRUE ELSE au.timer[1] < autoSaveDelay
  /\ au' = [au EXCEPT !.timer = IF @ = <<>> THEN @ ELSE <<@[1] + TickMs>>,
                      !.sinceEdit = IF @ > autoSaveDelay THEN @ ELSE @ + TickMs]
  /\ UNCHANGED <<psVars, sbVars, apVars, stVars, ehVars, plVars, unit, sv, mw, sk, ev>>

\* the timer expires: handleSave() calls saveState({ counter, ... }) with the
\* values of the render that set the timer; saveState: setIsLoading(true), await
AU_TimerFires ==
  /\ unit = "autosave"
  /\ IF au.timer = <<>> THEN FALSE ELSE au.timer[1] >= autoSaveDelay
  /\ Len(au.calls) < MaxInFlight
  /\ au' = [au EXCEPT !.timer = <<>>, !.captured = 0,
                      !.isLoading = TRUE,
                      !.calls = Append(@, au.captured),
                      !.timerSaves = IF au.burst /\ @ < MaxInFlight THEN @ + 1 ELSE @,
                      !.lastArg = IF au.burst THEN <<au.captured>> ELSE @]
  /\ UNCHANGED <<psVars, sbVars, apVars, stVars, ehVars, plVars, unit, sv, mw, sk, ev>>

\* the i-th saveState in flight settles.  On success the hook publishes the
\* saved object (setState(newState), while mounted) and the sync effect copies
\* it into the form: setCounter(state.counter || 0); a changed counter runs the
\* auto-save effect again.  finally: setIsLoading(false)
AU_SaveSettled(i, ok) ==
  /\ unit = "autosave"
  /\ i \in 1..Len(au.calls)
  /\ LET arg == au.calls[i]
         rest == [j \in 1..(Len(au.calls) - 1) |-> IF j < i THEN au.calls[j] ELSE au.calls[j + 1]]
         done == [au EXCEPT !.calls = rest]
     IN au' = IF au.phase # "mounted" THEN done
              ELSE IF ~ok THEN [done EXCEPT !.isLoading = FALSE]
              ELSE IF arg = au.counter
                     THEN [done EXCEPT !.isLoading = FALSE, !.state = <<arg>>]
                     ELSE autoSaveEffect([done EXCEPT !.isLoading = FALSE, !.state = <<arg>>,
                                                      !.counter = arg])
  /\ UNCHANGED <<psVars, sbVars, apVars, stVars, ehVars, plVars, unit, sv, mw, sk, ev>>

\* unmount: the cleanup of the auto-save effect runs clearTimeout(timeoutId)
AU_Unmount ==
  /\ unit = "autosave" /\ au.phase = "mounted"
  /\ au' = [au EXCEPT !.phase = "unmounted", !.timer = <<>>, !.captured = 0, !.burst = FALSE,
                      !.timerSaves = 0, !.lastArg = <<>>]
  /\ UNCHANGED <<psVars, sbVars, apVars, stVars, ehVars, plVars, unit, sv, mw, sk, ev>>

NextAutoSave ==
  \/ AU_Edit
  \/ AU_ToggleAutoSave
  \/ AU_Tick
  \/ AU_TimerFires
  \/ \E i \in 1..MaxInFlight, ok \in BOOLEAN : AU_SaveSettled(i, ok)
  \/ AU_Unmount

SpecAutoSave == InitAutoSave /\ [][NextAutoSave]_vars

(***************************************************************************)
(* The component with manual service wiring (src/unnamed/part_007).  Its   *)
(* initialization effect depends on isInitializing: it starts initialize   *)
(* and returns cleanupServices when isInitializing is true, and returns    *)
(* nothing when it is false.  initializeServices adds the theme listener,  *)
(* awaits, subscribes to the page context, awaits, reads the settings; the *)
(* steps run under FALLBACK, so a failing step does not end the run.  A    *)
(* listener or subscription is named by the run that created it.           *)
(***************************************************************************)
InitWiring ==
  /\ unit = "wiring"
  /\ psIdle /\ sbIdle /\ apIdle /\ stIdle /\ ehIdle /\ plIdle
  /\ sv = svInitial /\ au = auInitial /\ sk = skInitial /\ ev = evInitial
  /\ \E theme \in BOOLEAN, pageContext \in BOOLEAN :
       mw = [mwInitial EXCEPT !.theme = theme, !.pageContext = pageContext]

\* cleanupServices(): removeThemeChangeListener(themeChangeListenerRef.current) and
\* pageContextUnsubscribeRef.current(), each ref set to null
cleanupServices(r) ==
  [r EXCEPT !.hostTheme = IF r.theme THEN @ \ {r.themeChangeListenerRef} ELSE @,
            !.themeChangeListenerRef = IF r.theme THEN 0 ELSE @,
            !.hostPage = @ \ {r.pageContextUnsubscribeRef},
            !.pageContextUnsubscribeRef = 0]

\* the cleanup of the effect's previous run, if that run returned one
effectCleanup(r) == IF r.cleanup THEN [cleanupServices(r) EXCEPT !.cleanup = FALSE] ELSE r

\* a run of the effect with isInitializing true: initialize() up to the await that
\* follows the theme step, and return () => cleanupServices()
initialize(r) ==
  LET id == r.started + 1
  IN [r EXCEPT !.started = id,
               !.themeChangeListenerRef = IF r.theme THEN id ELSE @,
               !.hostTheme = IF r.theme THEN @ \cup {id} ELSE @,
               !.runs = @ \cup {[id |-> id, at |-> "pageContext"]},
               !.cleanup = TRUE]

MW_Mount ==
  /\ unit = "wiring" /\ mw.phase = "new"
  /\ mw' = initialize([mw EXCEPT !.phase = "mounted"])
  /\ UNCHANGED <<psVars, sbVars, apVars, stVars, ehVars, plVars, unit, sv, au, sk, ev>>

\* initializeServices after its first await: the page-context step
MW_PageContextStep(run) ==
  /\ unit = "wiring" /\ run \in mw.runs /\ run.at = "pageContext"
  /\ mw' = [mw EXCEPT
              !.pageContextUnsubscribeRef = IF mw.pageContext THEN run.id ELSE @,
              !.hostPage = IF mw.pageContext THEN @ \cup {run.id} ELSE @,
              !.runs = (@ \ {run}) \cup {[run EXCEPT !.at = "settings"]}]
  /\ UNCHANGED <<psVars, sbVars, apVars, stVars, ehVars, plVars, unit, sv, au, sk, ev>>

\* the settings step and loadInitialData are over: setIsInitializing(false); the
\* mounted component renders, and the effect, whose dependency changed, is cleaned
\* up and runs again: if (!isInitializing) return
MW_Initialized(run) ==
  /\ unit = "wiring" /\ run \in mw.runs /\ run.at = "settings"
  /\ mw' = IF mw.phase = "mounted" /\ mw.isInitializing
             THEN [effectCleanup(mw) EXCEPT !.isInitializing = FALSE, !.runs = @ \ {run}]
             ELSE [mw EXCEPT !.runs = @ \ {run}]
  /\ UNCHANGED <<psVars, sbVars, apVars, stVars, ehVars, plVars, unit, sv, au, sk, ev>>

\* handleRetry, offered by the display that replaces content which failed to
\* render: setIsInitializing(true), so the effect runs again
MW_handleRetry ==
  /\ unit = "wiring" /\ mw.phase = "mounted" /\ ~mw.isInitializing
  /\ mw' = IF mw.retryCountRef >= maxRetries THEN mw
           ELSE initialize(effectCleanup([mw EXCEPT !.retryCountRef = @ + 1,
                                                    !.isInitializing = TRUE]))
  /\ UNCHANGED <<psVars, sbVars, apVars, stVars, ehVars, plVars, unit, sv, au, sk, ev>>

\* unmount: the cleanup of the effect's latest run, if it returned one
MW_Unmount ==
  /\ unit = "wiring" /\ mw.phase = "mounted"
  /\ mw' = [effectCleanup(mw) EXCEPT !.phase = "unmounted"]
  /\ UNCHANGED <<psVars, sbVars, apVars, stVars, ehVars, plVars, unit, sv, au, sk, ev>>

NextWiring ==
  \/ MW_Mount
  \/ \E run \in mw.runs : MW_PageContextStep(run)
  \/ \E run \in mw.runs : MW_Initialized(run)
  \/ MW_handleRetry
  \/ MW_Unmount

SpecWiring == InitWiring /\ [][NextWiring]_vars

(***************************************************************************)
(* useSettings bound to a settingKey that the UI unit changes ("k1", "k2") *)
(* on a host that serves getSetting.  The host stores under a key either   *)
(* nothing or a value that names the key.  Every run of the load effect    *)
(* awaits its own getSetting(settingKey); the effect returns no cleanup.   *)
(***************************************************************************)
InitKeys ==
  /\ unit = "keys"
  /\ psIdle /\ sbIdle /\ apIdle /\ stIdle /\ ehIdle /\ plIdle
  /\ sv = svInitial /\ au = auInitial /\ mw = mwInitial /\ ev = evInitial
  /\ \E a \in {"undefined", "V-k1"}, b \in {"undefined", "V-k2"} :
       sk = [skInitial EXCEPT !.host = [k \in {"k1", "k2"} |-> IF k = "k1" THEN a ELSE b]]

\* a run of the load effect: setIsLoading(true); setError(null); await getSetting?.(settingKey)
loadSettingFor(r, k) ==
  [r EXCEPT !.hook = [@ EXCEPT !.isLoading = TRUE, !.error = "null"],
            !.calls = @ \cup {[key |-> k, run |-> r.runs + 1, status |-> "sent",
                               val |-> "undefined"]},
            !.runs = @ + 1]

SK_Mount ==
  /\ unit = "keys" /\ sk.phase = "new"
  /\ sk' = loadSettingFor([sk EXCEPT !.phase = "mounted"], sk.settingKey)
  /\ UNCHANGED <<psVars, sbVars, apVars, stVars, ehVars, plVars, unit, sv, au, mw, ev>>

\* a re-render with another settingKey re-runs the load effect
SK_KeyChanged(k) ==
  /\ unit = "keys" /\ sk.phase = "mounted"
  /\ k # sk.settingKey /\ sk.runs <= MaxRuns
  /\ sk' = loadSettingFor([sk EXCEPT !.settingKey = k], k)
  /\ UNCHANGED <<psVars, sbVars, apVars, stVars, ehVars, plVars, unit, sv, au, mw, ev>>

\* the host resolves or rejects a getSetting
SK_HostServe(c, ok) ==
  /\ unit = "keys" /\ c \in sk.calls /\ c.status = "sent"
  /\ sk' = [sk EXCEPT !.calls = (@ \ {c}) \cup
              {IF ok THEN [c EXCEPT !.status = "resolved", !.val = sk.host[c.key]]
               ELSE [c EXCEPT !.status = "rejected"]}]
  /\ UNCHANGED <<psVars, sbVars, apVars, stVars, ehVars, plVars, unit, sv, au, mw, ev>>

\* loadSetting after the await, whatever the key of the hook is by now
SK_Settled(c) ==
  /\ unit = "keys" /\ c \in sk.calls /\ c.status # "sent"
  /\ sk' = [sk EXCEPT !.hook = loadSettingDone(@, c), !.calls = @ \ {c}]
  /\ UNCHANGED <<psVars, sbVars, apVars, stVars, ehVars, plVars, unit, sv, au, mw, ev>>

NextKeys ==
  \/ SK_Mount
  \/ \E k \in {"k1", "k2"} : SK_KeyChanged(k)
  \/ \E c \in sk.calls, ok \in BOOLEAN : SK_HostServe(c, ok)
  \/ \E c \in sk.calls : SK_Settled(c)

SpecKeys == InitKeys /\ [][NextKeys]_vars

(***************************************************************************)
(* EventServiceTab.  The subscription effect depends on the service, the   *)
(* channel and isListening; each of its runs that subscribes creates its   *)
(* own handleMessage, which closes over the channel of that run, and       *)
(* returns the cleanup that unsubscribes that handler from that channel.   *)
(* The host holds subscriptions as (channel, handler) pairs and delivers   *)
(* messages to the handlers it holds.  A message is its arrival number and *)
(* the channel its handler stamped on it.                                  *)
(***************************************************************************)
InitEvents ==
  /\ unit = "events"
  /\ psIdle /\ sbIdle /\ apIdle /\ stIdle /\ ehIdle /\ plIdle
  /\ sv = svInitial /\ au = auInitial /\ mw = mwInitial /\ sk = skInitial
  /\ \E event \in BOOLEAN : ev = [evInitial EXCEPT !.event = event]

\* mutant of subscribeEffect: the cleanup unsubscribes from the channel of the
\* render that runs it, not from the channel it subscribed to
subscribeEffect_currentChannel(r) ==
  LET cleaned == [r EXCEPT !.subs = @ \ {[p EXCEPT !.channel = r.channel] : p \in r.cleanup},
                           !.cleanup = {}]
      sub == [channel |-> r.channel, handler |-> r.runs + 1]
  IN IF r.phase = "mounted" /\ r.event /\ r.isListening
       THEN [cleaned EXCEPT !.subs = @ \cup {sub}, !.cleanup = {sub}, !.runs = @ + 1]
       ELSE cleaned

\* the effect after a change of its dependencies (or at unmount): the cleanup of
\* its previous run, then if (!services.event || !isListening) return;
\* subscribeToMessages(channel, handleMessage)
subscribeEffect(r) ==
  LET cleaned == [r EXCEPT !.subs = @ \ r.cleanup, !.cleanup = {}]
      sub == [channel |-> r.channel, handler |-> r.runs + 1]
  IN IF r.phase = "mounted" /\ r.event /\ r.isListening
       THEN [cleaned EXCEPT !.subs = @ \cup {sub}, !.cleanup = {sub}, !.runs = @ + 1]
       ELSE cleaned

\* [newMessage, ...prev].slice(0, 10)
handleMessage(prev, m) == SubSeq(<<m>> \o prev, 1, IF Len(prev) < maxMessages THEN Len(prev) + 1 ELSE maxMessages)

EV_Mount ==
  /\ unit = "events" /\ ev.phase = "new"
  /\ ev' = subscribeEffect([ev EXCEPT !.phase = "mounted"])
  /\ UNCHANGED <<psVars, sbVars, apVars, stVars, ehVars, plVars, unit, sv, au, mw, sk>>

\* the channel input and the listening checkbox are rendered when the service is there
EV_setChannel(c) ==
  /\ unit = "events" /\ ev.phase = "mounted" /\ ev.event
  /\ c # ev.channel /\ ev.runs < MaxRuns + 1
  /\ ev' = subscribeEffect([ev EXCEPT !.channel = c])
  /\ UNCHANGED <<psVars, sbVars, apVars, stVars, ehVars, plVars, unit, sv, au, mw, sk>>

EV_setIsListening ==
  /\ unit = "events" /\ ev.phase = "mounted" /\ ev.event
  /\ ev.runs < MaxRuns + 1
  /\ ev' = subscribeEffect([ev EXCEPT !.isListening = ~@])
  /\ UNCHANGED <<psVars, sbVars, apVars, stVars, ehVars, plVars, unit, sv, au, mw, sk>>

\* the host delivers a message to a handler it holds
EV_Message(sub) ==
  /\ unit = "events" /\ sub \in ev.subs /\ ev.received < MaxReceived
  /\ ev' = [ev EXCEPT !.received = @ + 1,
                      !.messages = handleMessage(@, [n |-> ev.received + 1,
                                                    channel |-> sub.channel])]
  /\ UNCHANGED <<psVars, sbVars, apVars, stVars, ehVars, plVars, unit, sv, au, mw, sk>>

EV_Unmount ==
  /\ unit = "events" /\ ev.phase = "mounted"
  /\ ev' = subscribeEffect([ev EXCEPT !.phase = "unmounted"])
  /\ UNCHANGED <<psVars, sbVars, apVars, stVars, ehVars, plVars, unit, sv, au, mw, sk>>

NextEvents ==
  \/ EV_Mount
  \/ \E c \in {"demo-channel", "other"} : EV_setChannel(c)
  \/ EV_setIsListening
  \/ \E sub \in ev.subs : EV_Message(sub)
  \/ EV_Unmount

SpecEvents == InitEvents /\ [][NextEvents]_vars

Init == InitState \/ InitSubs \/ InitBinding("theme") \/ InitBinding("page") \/ InitApi \/ InitOverlap \/ InitSettings \/ InitValidated \/ InitErrors \/ InitPlugin \/ InitAutoSave

Next == NextState \/ NextSubs \/ NextBinding \/ NextOverlap \/ NextSettings \/ NextValidated \/ NextErrors \/ NextPlugin \/ NextAutoSave

Spec == Init /\ [][Next]_vars

(***************************************************************************)
(* The three hooks whose operations return promises to their callers:      *)
(* usePluginState, useAPI and useSettings.                                 *)
(***************************************************************************)
SpecHooks == (InitState \/ InitApi \/ InitSettings) /\ [][NextState \/ NextApi \/ NextSettings]_vars



(***************************************************************************)
(* Claims.                                                                 *)
(***************************************************************************)

\* C1: for every binding (usePluginState, useTheme, usePageContext) a push
\* delivered after the owning UI unit was torn down never changes the
\* binding's published value: in every step taken by a torn-down instance the
\* published value stays what it was at teardown.
C1_NoPostTeardownMutation ==
  [][ /\ (psPhase = "unmounted" /\ psPhase' = "unmounted") => ps'.state = ps.state
      /\ sbPhase = "unmounted" => sbValue' = sbValue ]_vars

\* C2: every subscription a binding registered is released exactly once
\* between its registration and unmount: never twice, and once the effect
\* run that registered it was cleaned up (a later run exists, or the unit is
\* unmounted) its unsubscribe has been invoked.
C2_ReleasedExactlyOnce ==
  /\ \A s \in DOMAIN psUnsubCount :
       /\ psUnsubCount[s] <= 1
       /\ (psPhase = "unmounted" \/ s.gen < psGen) => psUnsubCount[s] = 1
  /\ \A l \in sbEverRegistered :
       /\ sbReleaseCount[l] <= 1
       /\ (sbPhase = "unmounted" \/ l < sbGen) => sbReleaseCount[l] = 1


\* C5: with no failure injected, saveState(X) followed by getState() gives X:
\* while the unit is mounted and nothing is in flight, after a saveState or a
\* load that succeeded with no other call overlapping it, the published
\* state is the snapshot the capability holds (the X of the save; what a
\* later mount's auto-load publishes).
C5_SaveLoadRoundTrip ==
  ( /\ psPhase = "mounted" /\ psCalls = {}
    /\ psReturn.op \in {"saveState", "getState"}
    /\ psReturn.outcome = "resolved" /\ psReturn.err = NoError /\ psReturn.sole )
  => ps.state = hostStored

\* C5 witness: a second instance auto-loaded the payload 1, which only a
\* saveState(1) of the first instance can have stored.
C5_Witness ==
  /\ psInst = 2 /\ psPhase = "mounted" /\ psCalls = {}
  /\ psReturn.op = "getState" /\ psReturn.err = NoError /\ psReturn.sole
  /\ ps.state = 1 /\ hostStored = 1

\* C6: a saveState that fails, for whatever reason, leaves the snapshot
\* intact: the step that continues a failed save changes neither the
\* published state nor the snapshot the capability holds.
C6_FailedSaveKeepsSnapshot ==
  [][ \A c \in psCalls :
        (PS_saveStateSettled(c) /\ c.status = "err")
          => (ps'.state = ps.state /\ hostStored' = hostStored) ]_vars

\* C6 witness: a save was rejected for its size while an earlier snapshot is
\* published and stored.
C6_Witness ==
  /\ psReturn.op = "saveState" /\ psReturn.outcome = "rejected"
  /\ psReturn.err = "SizeLimitExceeded"
  /\ ps.state = 1 /\ hostStored = 1 /\ ps.error = "SizeLimitExceeded"

C3_AbsentCapabilityNeverInvoked ==
  /\ ~psService => (~isAvailable /\ psInvoked = {} /\ psCalls = {} /\ psRegistered = {})
  /\ ~sbService => (~sbIsAvailable /\ sbInvoked = {} /\ sbRegistered = {})
  /\ ~apService => (~apIsAvailable /\ apInvoked = {} /\ apCalls = {})
  /\ ~stService => (~stIsAvailable /\ stInvoked = {} /\ stCalls = {})

\* C3 witness: a verb of useAPI was called against an absent api service and
\* gave up with the unavailable message.
C3_Witness ==
  /\ unit = "api" /\ ~apService
  /\ apReturn.verb = "get" /\ apReturn.value = "null"
  /\ ap.error = "API service not available"
  /\ apInvoked = {}

\* C9 (as claimed): no hook operation ever hands a failure to its caller as a
\* rejected promise.
C9_NoFailureReachesCaller ==
  /\ psReturn.outcome # "rejected"
  /\ apReturn.outcome # "rejected"
  /\ stReturn.outcome # "rejected"

\* C9 (amended): the verbs of useAPI and useSettings.setValue / setSetting
\* never reject: a failure makes them resolve with null / false (the verbs and
\* setValue also publish an error).  usePluginState.saveState / clearState
\* resolve when the capability is absent (error published), and on a failure
\* of the capability call publish the error (while mounted) and then re-throw
\* it, so their promise rejects.  useSettings.getSetting publishes nothing and
\* rejects when the service is absent or its call fails.
C9_FailuresSurfacedOrRethrown ==
  [][ /\ \A c \in apCalls :
           AP_Settled(c) =>
             /\ apReturn'.outcome = "resolved"
             /\ c.status = "rejected" =>
                  (ap'.error # "null" /\ apReturn'.value \in {"null", "false"})
      /\ \A verb \in Verbs :
           (AP_call(verb) /\ apCalls' = apCalls) =>
             (apReturn'.outcome = "resolved" /\ ap'.error # "null")
      /\ \A c \in stCalls :
           ST_Settled(c) =>
             /\ c.op \in {"setValue", "setSetting"} =>
                  /\ stReturn'.outcome = "resolved"
                  /\ c.status = "rejected" => stReturn'.value = "false"
             /\ (c.op = "setValue" /\ c.status = "rejected") => st'.error # "null"
             /\ c.op = "getSetting" =>
                  /\ st' = st
                  /\ (stReturn'.outcome = "rejected") <=> (c.status = "rejected")
      /\ (ST_getSetting /\ ~stService) => (stReturn'.outcome = "rejected" /\ st' = st)
      /\ \A v \in NewValues :
           ((ST_setValue(v) \/ ST_setSetting(v)) /\ stCalls' = stCalls)
             => stReturn'.outcome = "resolved"
      /\ \A c \in psCalls :
           (PS_saveStateSettled(c) \/ PS_clearStateSettled(c)) =>
             /\ (psReturn'.outcome = "rejected") <=> (c.status = "err")
             /\ (c.status = "err" /\ ps.isMountedRef) => ps'.error = c.err
      /\ ((PS_clearState \/ \E p \in SavedValues : PS_saveState(p)) /\ ~psService) =>
           /\ psReturn'.outcome = "resolved"
           /\ ps'.error = "PluginState service is not available" ]_vars

\* C9 witness: a saveState whose capability call failed published the error
\* and rejected.
C9_Witness ==
  /\ psReturn.op = "saveState" /\ psReturn.outcome = "rejected"
  /\ psReturn.err = "Network" /\ ps.error = "Network"

\* C10 (as claimed): every verb called against a present api service first
\* clears the error and sets loading, and whenever the capability's promise
\* resolves the hook replaces data by the response's data, with loading
\* false and error null.
C10_EveryCallLoadsThenReplaces ==
  [][ /\ \A verb \in Verbs :
           (AP_call(verb) /\ apService) => (ap'.loading /\ ap'.error = "null")
      /\ \A c \in apCalls :
           (AP_Settled(c) /\ c.status = "resolved") =>
             ap' = [data |-> c.resp.data, loading |-> FALSE, error |-> "null"] ]_vars

\* C10 (amended): get, post, put and delete against a present api service,
\* and postStreaming when the service provides it, first clear the error and
\* set loading, keeping data; postStreaming against a service without
\* postStreaming only publishes "Streaming API not available" and invokes
\* nothing.  On success (get/post/put: the promise resolves with an object;
\* postStreaming: with anything but null/undefined; delete: it resolves) data
\* is replaced wholesale, by response.data for get/post/put/postStreaming and
\* by null for delete, with loading false and error null.
C10_CallLoadsThenReplaces ==
  [][ /\ \A verb \in Verbs :
           (AP_call(verb) /\ apService) =>
             IF verb = "postStreaming" /\ ~apStreaming
               THEN /\ ap' = [ap EXCEPT !.loading = FALSE,
                                        !.error = "Streaming API not available"]
                    /\ apInvoked' = apInvoked /\ apCalls' = apCalls
               ELSE ap' = [data |-> ap.data, loading |-> TRUE, error |-> "null"]
      /\ \A c \in apCalls :
           ( /\ AP_Settled(c) /\ c.status = "resolved"
             /\ c.verb \in {"get", "post", "put"} => c.resp.kind = "object"
             /\ c.verb = "postStreaming" => c.resp.kind # "null" ) =>
             ap' = [data |-> IF c.verb = "delete" THEN "null" ELSE c.resp.data,
                    loading |-> FALSE, error |-> "null"] ]_vars

\* C10 witness: a post succeeded with data A after an earlier get, and the
\* hook publishes A with no error.
C10_Witness ==
  /\ apReturn.verb = "post" /\ apReturn.value = "A"
  /\ ap = [data |-> "A", loading |-> FALSE, error |-> "null"]
  /\ "get" \in apInvoked


\* C4 (as claimed): under strategy RETRY with maxRetries = N, an operation
\* that fails on every attempt is attempted exactly N+1 times, after which
\* one terminal error is surfaced (error state set, null returned): every
\* safeAsync under RETRY that ends in the terminal error has executed its
\* operation N+1 times.
C4_RetryBound ==
  [][ \A c \in egCalls :
        (EH_safeAsyncSettled(c) /\ c.strategy = "RETRY" /\ c.phase = "threw")
          => /\ c.attempts = ehMax + 1
             /\ eh'.error = "safeAsync"
             /\ ehReturn'.value = "null" ]_vars

\* C4 (amended): the retry counter belongs to the ErrorHandler's context and
\* outlives the call.  An operation run under RETRY that starts with the
\* counter at 0 (a new handler, after a reset, or after a successful
\* operation), with no other operation of the handler in flight and no reset
\* before it ends, and that fails on every attempt, is attempted exactly N+1
\* times: attempts 1..N are followed by a retry and publish nothing, attempt
\* N+1 ends the call, and then one terminal error is surfaced and no further
\* attempt is made.  useErrorHandler.safeAsync sets its error state once and
\* returns null; the initialization effect of PluginTemplateFunctional
\* (N = 3) shows the error state through handleComponentError.
C4_RetryBoundFromReset ==
  [][ /\ \A c \in egCalls :
           (EH_safeAsyncSettled(c) /\ c.strategy = "RETRY" /\ c.phase = "threw" /\ c.clean)
             => /\ c.attempts = ehMax + 1
                /\ eh'.error = "safeAsync"
                /\ ehReturn'.value = "null"
                /\ c \notin egCalls'
      /\ \A c \in egCalls, ok \in BOOLEAN :
           (EH_Attempt(c, ok) /\ c.strategy = "RETRY" /\ c.clean)
             => /\ c.attempts <= ehMax
                /\ (~ok /\ c.attempts < ehMax) => engineAttempt(c, ok, ehMax).phase = "backoff"
                /\ (~ok /\ c.attempts = ehMax) => engineAttempt(c, ok, ehMax).phase = "threw"
                /\ eh' = eh
      /\ \A c \in egCalls, ok \in BOOLEAN :
           (PL_Attempt(c, ok) /\ c.clean)
             => /\ c.attempts <= maxRetries
                /\ (~ok /\ c.attempts < maxRetries)
                     => (engineAttempt(c, ok, maxRetries) \in egCalls' /\ pl' = pl)
                /\ (~ok /\ c.attempts = maxRetries)
                     => /\ egCalls' = {}
                        /\ pl'.error = "initialization"
                        /\ ~pl'.isInitializing
                        /\ plReturn'.attempts = maxRetries + 1 ]_vars

\* C4 witness: with maxRetries = 1, a safeAsync under RETRY that started from
\* a counter of 0 has ended after 2 failed attempts, with the error
\* published and null returned.
C4_Witness ==
  /\ unit = "errors" /\ ehMax = 1
  /\ ehReturn.op = "RETRY" /\ ehReturn.value = "null"
  /\ ehReturn.clean /\ ehReturn.attempts = 2
  /\ eh.error = "safeAsync" /\ egCalls = {}


\* C11: a verb of useAPI whose capability call fails is retried before an
\* error is surfaced: when the hook surfaces the failure of a call, the
\* capability method has been invoked more than once for that call.
C11_FailingCallRetried ==
  [][ \A c \in apCalls :
        (AP_Settled(c) /\ c.status = "rejected" /\ ap'.error # "null")
          => c.invocations > 1 ]_vars

\* C12: the results of overlapping calls on one useAPI binding apply in
\* completion order, not issue order: whenever a call that overlapped another
\* call completes - also when it was issued first and a later call has
\* completed before it - the binding takes that call's result: on success its
\* data with error null, on failure its error (a failed call has no data, so
\* data keeps what the binding held).  The state after both have completed is
\* therefore the one the last completion left.
C12_CompletionOrderWins ==
  [][ \A c \in apCalls :
        (AP_Settled(c) /\ c.issued # "alone")
          => IF verbSucceeds(c)
               THEN ap' = [data |-> c.resp.data, loading |-> FALSE, error |-> "null"]
               ELSE /\ ap'.error = failedMessage(c)
                    /\ ap'.data = ap.data ]_vars

\* C12 witness: get was issued, then post while get was in flight; post
\* completed first, get last, and the binding holds the data of get.
C12_Witness ==
  /\ unit = "overlap" /\ apCalls = {} /\ "post" \in apInvoked
  /\ apReturn.verb = "get" /\ apReturn.issued = "before" /\ apReturn.value = "A"
  /\ ap = [data |-> "A", loading |-> FALSE, error |-> "null"]

\* C13: after a successful delete, with nothing in flight, the binding has
\* data = null and error = null, and its state differs from the state of a
\* binding on which no call was ever made.
C13_DeleteDistinctFromNeverCalled ==
  (apCalls = {} /\ apReturn.verb = "delete" /\ apReturn.value = "true")
    => /\ ap.data = "null" /\ ap.error = "null"
       /\ ap # apInitial

\* C14: when the UI unit unmounts while a capability call is in flight, the
\* call's resolution is discarded: no step taken after the unmount changes a
\* published value of useAPI (data, loading, error), of useSettings (value,
\* isLoading, error) or of usePluginState (state, isLoading, error).
C14_ResolutionAfterUnmountDiscarded ==
  [][ /\ ~apMounted => ap' = ap
      /\ stPhase = "unmounted" => st' = st
      /\ (psPhase = "unmounted" /\ psPhase' = "unmounted")
           => /\ ps'.state = ps.state
              /\ ps'.isLoading = ps.isLoading
              /\ ps'.error = ps.error ]_vars

\* C15: on teardown an unsubscribe / remove-listener function that throws
\* neither leaves the cleanup as an exception nor keeps the binding's other
\* subscriptions from being released: the step that unmounts usePluginState
\* invokes the unsubscribe of each of its onSave, onRestore and onClear
\* subscriptions once, and the step that unmounts useTheme / usePageContext
\* invokes the release of the listener it holds once.
C15_TeardownReleasesEverySubscription ==
  [][ /\ (psPhase = "mounted" /\ psPhase' = "unmounted")
           => \A j \in 1..Len(psCleanupFns) :
                psUnsubCount'[psCleanupFns[j]] = psUnsubCount[psCleanupFns[j]] + 1
      /\ (sbPhase = "mounted" /\ sbPhase' = "unmounted" /\ sbService /\ sbRef # 0)
           => sbReleaseCount'[sbRef] = sbReleaseCount[sbRef] + 1 ]_vars

\* C16: with the capability present, the initialization of useTheme /
\* usePageContext never skips the registration of its change listener, also
\* when the read of the current value throws, with or without an
\* errorHandler: the mount step invokes the registration, leaves at most one
\* listener registered, and publishes the value read or the fallback.
C16_InitAlwaysRegistersListener ==
  [][ (sbPhase = "new" /\ sbPhase' = "mounted" /\ sbService)
        => /\ "register" \in sbInvoked'
           /\ Cardinality(sbRegistered') <= 1
           /\ sbValue' \in {sbHost, sbInitialValue(unit)} ]_vars

\* C17: a mutator whose capability call throws or rejects never throws to its
\* caller and leaves the published value as it was: setTheme / toggleTheme
\* return normally and currentTheme is unchanged by the call; setValue and
\* setSetting resolve with false and value is unchanged.
C17_MutatorFailureNeverThrows ==
  [][ /\ (unit = "theme" /\ sbReturn' # sbReturn)
           => /\ sbReturn'.outcome = "returned"
              /\ sbValue' = sbValue
      /\ \A c \in stCalls :
           (ST_Settled(c) /\ c.op \in {"setValue", "setSetting"} /\ c.status = "rejected")
             => /\ stReturn'.outcome = "resolved"
                /\ stReturn'.value = "false"
                /\ st'.value = st.value ]_vars

\* C17 witness: toggleTheme was called while the theme service threw, and
\* returned normally with the theme as published before.
C17_Witness ==
  /\ unit = "theme" /\ sbPhase = "mounted"
  /\ sbReturn.op = "toggleTheme" /\ sbReturn.hostThrew /\ sbReturn.outcome = "returned"
  /\ sbValue = sbHost

\* C18: a failure of getState during the auto-load never throws out of the
\* initializer: the continuation of a failed load ends normally, leaves the
\* published state as it was (null when nothing else has written it) and,
\* while mounted, publishes the error and sets isLoading to false; and
\* whenever a failed load is the latest event of a mounted unit with nothing
\* in flight, saveState and clearState can be called.
C18_FailedAutoLoadDegrades ==
  /\ [][ \A c \in psCalls :
           (PS_loadStateSettled(c) /\ c.status = "err")
             => /\ psReturn'.outcome = "resolved"
                /\ ps'.state = ps.state
                /\ ps.isMountedRef => (~ps'.isLoading /\ ps'.error = c.err)
                /\ psPhase' = psPhase ]_vars
  /\ []( ( /\ psPhase = "mounted" /\ psCalls = {}
           /\ psReturn.op = "getState" /\ psReturn.err # NoError )
         => /\ ~ps.isLoading
            /\ ENABLED PS_saveState(1)
            /\ ENABLED PS_clearState )

\* C18 witness: the auto-load of the first instance failed with a Network
\* error; the state is still null, the error is published, nothing is loading.
C18_Witness ==
  /\ psInst = 1 /\ psPhase = "mounted" /\ psCalls = {}
  /\ psReturn.op = "getState" /\ psReturn.err = "Network" /\ psReturn.outcome = "resolved"
  /\ ps.state = Null /\ ~ps.isLoading /\ ps.error = "Network"

\* C19: the local snapshot follows the lifecycle.  The continuation of a
\* successful saveState(X) in a mounted component leaves state = X, so its
\* fields are exactly the fields of X whatever the snapshot was before; the
\* continuation of a successful clearState leaves state = null; and an onClear
\* push delivered to a mounted component leaves state = null.
C19_SnapshotLifecycle ==
  [][ /\ \A c \in psCalls :
           (PS_saveStateSettled(c) /\ c.status = "ok" /\ ps.isMountedRef)
             => /\ ps'.state = c.arg
                /\ PayloadFields[ps'.state] = PayloadFields[c.arg]
      /\ \A c \in psCalls :
           (PS_clearStateSettled(c) /\ c.status = "ok" /\ ps.isMountedRef)
             => ps'.state = Null
      /\ \A sub \in psRegistered, v \in PushValues :
           (PS_Push(sub, v) /\ sub.kind = "onClear" /\ ps.isMountedRef)
             => ps'.state = Null ]_vars

\* C19 witness: after the auto-load, a save of payload 1 succeeded in a
\* mounted component; the snapshot is payload 1, as is the host's copy.
C19_Witness ==
  /\ unit = "state" /\ psPhase = "mounted" /\ ps.isMountedRef
  /\ psReturn.op = "saveState" /\ psReturn.outcome = "resolved" /\ psReturn.err = NoError
  /\ ps.state = 1 /\ hostStored = 1 /\ "getState" \in psInvoked

\* C20: saveState is complete when its promise settles.  In the step that
\* settles the promise of a saveState whose capability call is c: the call has
\* left the calls in flight and the step hands nothing new to the capability;
\* in a mounted component isLoading is false, a success has published c.arg
\* and left error alone (null when no other call overlapped this one) and a
\* failure has published its message and left state alone; and the promise
\* rejects exactly when the capability call failed.  A saveState without a
\* service settles at once, with its message published and no call made.
C20_SaveCompleteWhenSettled ==
  [][ /\ \A c \in psCalls :
           PS_saveStateSettled(c)
             => /\ psCalls' = psCalls \ {c}
                /\ psInvoked' = psInvoked
                /\ psReturn'.outcome = (IF c.status = "ok" THEN "resolved" ELSE "rejected")
                /\ ps.isMountedRef
                     => /\ ~ps'.isLoading
                        /\ IF c.status = "ok"
                             THEN /\ ps'.state = c.arg /\ ps'.error = ps.error
                                  /\ c.sole => ps'.error = NoError
                             ELSE /\ ps'.error = c.err /\ ps'.state = ps.state
      /\ \A p \in SavedValues :
           (PS_saveState(p) /\ ~saveStateIssues)
             => /\ psCalls' = psCalls /\ psInvoked' = psInvoked
                /\ psReturn'.outcome = "resolved"
                /\ ps'.error = "PluginState service is not available"
                /\ ~ps'.isLoading ]_vars

\* C20 witness: the promise of a saveState rejected with a Network error in a
\* mounted component: nothing is loading, the message is published, no call
\* is in flight.
C20_Witness ==
  /\ unit = "state" /\ psPhase = "mounted" /\ ps.isMountedRef /\ psCalls = {}
  /\ psReturn.op = "saveState" /\ psReturn.outcome = "rejected" /\ psReturn.err = "Network"
  /\ ~ps.isLoading /\ ps.error = "Network"

\* C21: in useErrorHandler a handleRetry called with the retry counter at
\* maxRetries returns false, does not invoke the retry callback, leaves the
\* counter as it is and sets retryAvailable to false; the callback is invoked
\* only by a step that raises the counter by one, to at most maxRetries, so
\* between resets it is invoked at most maxRetries times.
C21_ManualRetryBounded ==
  [][ /\ (EH_handleRetry /\ ehRetryCountRef >= ehMax)
           => /\ ehReturn'.op = "handleRetry" /\ ehReturn'.value = "false"
              /\ ehRetrying' = ehRetrying
              /\ ehRetryCountRef' = ehRetryCountRef
              /\ ~eh'.retryAvailable
      /\ ehRetrying' > ehRetrying
           => /\ ehRetryCountRef' = ehRetryCountRef + 1
              /\ ehRetryCountRef' <= ehMax ]_vars

\* C21 witness: with maxRetries = 1 and a retry callback stored, the counter
\* is at 1, an error is published, and a handleRetry has returned false with
\* no callback running.
C21_Witness ==
  /\ unit = "retry" /\ ehMax = 1 /\ ehRetryCountRef = 1 /\ ehCallback
  /\ ehReturn.op = "handleRetry" /\ ehReturn.value = "false" /\ ehRetrying = 0
  /\ eh.error = "component" /\ ~eh.retryAvailable

\* C22: the retry counter of useErrorHandler persists until it is reset.
\* handleError, clearError, safeAsync (its start, the executions and backoffs
\* of its operation, its continuation), safeSync, validate and the
\* continuation of a retry callback leave it unchanged; a handleRetry raises
\* it by exactly one when it is below maxRetries and leaves it otherwise; it
\* decreases only in a resetErrorHandler step, which sets it to 0; and the
\* published retryCount always equals it.
C22_RetryCounterPersists ==
  [][ /\ ( \/ \E allowRetry \in BOOLEAN : EH_handleError(allowRetry)
           \/ EH_clearError
           \/ \E strategy \in Strategies, withCallback \in BOOLEAN : EH_safeAsync(strategy, withCallback)
           \/ \E c \in egCalls, ok \in BOOLEAN : EH_Attempt(c, ok)
           \/ \E c \in egCalls : EH_BackoffElapsed(c)
           \/ \E c \in egCalls : EH_safeAsyncSettled(c)
           \/ \E threw \in BOOLEAN : EH_safeSync(threw)
           \/ \E threw \in BOOLEAN : EH_validate(threw)
           \/ \E ok \in BOOLEAN : EH_retryCallbackSettled(ok) )
           => ehRetryCountRef' = ehRetryCountRef
      /\ EH_handleRetry
           => ehRetryCountRef' = (IF ehRetryCountRef < ehMax THEN ehRetryCountRef + 1
                                  ELSE ehRetryCountRef)
      /\ ehRetryCountRef' < ehRetryCountRef
           => EH_resetErrorHandler /\ ehRetryCountRef' = 0
      /\ eh'.retryCount = ehRetryCountRef' ]_vars

\* C22 witness: the counter is 1 after an accepted handleRetry, and an error
\* surfaced by validate is published with retryCount 1.
C22_Witness ==
  /\ unit = "retry" /\ ehRetryCountRef = 1
  /\ eh.error = "validation" /\ eh.retryCount = 1

\* C23: an operation of usePluginState called while the capability is absent
\* reports the absence to the error handler as not retryable (strategy
\* FALLBACK) and with severity MEDIUM, the same for saveState and clearState.
C23_AbsentCapabilityReportedMedium ==
  psReturn.err = "PluginState service is not available"
    => psReturn.report = "FALLBACK/MEDIUM"

\* C24: usePluginState called with autoLoad = false never hands a getState to
\* the capability, on mount or on any later run of its effects, and its
\* state changes only in the continuation of a save or a clear, in a push, or
\* when a new component instance starts again from null.
C24_NoAutoLoadNoGetState ==
  /\ []( ~psAutoLoad
           => /\ "getState" \notin psInvoked
              /\ \A c \in psCalls : c.op # "getState" )
  /\ [][ (~psAutoLoad /\ ps'.state # ps.state)
           => \/ \E c \in psCalls : PS_saveStateSettled(c) \/ PS_clearStateSettled(c)
              \/ \E sub \in psRegistered, v \in PushValues : PS_Push(sub, v)
              \/ (psInst' # psInst /\ ps'.state = Null) ]_vars

\* C24 witness: a mounted component with a service and autoLoad = false has
\* saved payload 1; getState was never invoked.
C24_Witness ==
  /\ unit = "state" /\ psPhase = "mounted" /\ psService /\ ~psAutoLoad
  /\ "getState" \notin psInvoked /\ "saveState" \in psInvoked
  /\ ps.state = 1 /\ psCalls = {}

\* C27: useSettings publishes defaultValue until something else is published,
\* and the published value changes only when a load resolves with a value
\* that is neither null nor undefined (to that value) or when a setValue
\* succeeds (to its argument).  A load that resolves with null / undefined
\* leaves value and error alone, a load that fails leaves value alone and sets
\* the load error; a successful setValue(v) publishes v and returns true, a
\* failing one leaves value alone and returns false.
C27_DefaultUntilLoaded ==
  [][ /\ \A c \in stCalls :
           ST_Settled(c) =>
             CASE c.op = "load" /\ c.status = "rejected" ->
                    /\ st'.value = st.value
                    /\ st'.error = "Failed to load setting 'key'"
               [] c.op = "load" /\ c.status # "rejected" /\ c.val \in {"undefined", "null"} ->
                    /\ st'.value = st.value
                    /\ st'.error = st.error
               [] c.op = "load" /\ c.status # "rejected" /\ c.val \notin {"undefined", "null"} ->
                    /\ st'.value = c.val
                    /\ st'.error = st.error
               [] c.op = "setValue" /\ c.status # "rejected" ->
                    /\ st'.value = c.arg
                    /\ stReturn'.value = "true"
               [] c.op = "setValue" /\ c.status = "rejected" ->
                    /\ st'.value = st.value
                    /\ stReturn'.value = "false"
               [] OTHER -> st'.value = st.value
      /\ st'.value # st.value => \E c \in stCalls : ST_Settled(c) ]_vars

\* C27 witness: the host holds null for the key; the load has resolved and the
\* published value is still defaultValue, with no error.
C27_Witness ==
  /\ unit = "settings" /\ stPhase = "mounted" /\ stMethods /\ stHost = "null"
  /\ stReturn.op = "load" /\ stCalls = {}
  /\ st.value = stInitial.value /\ st.error = "null" /\ ~st.isLoading

\* C28: in useErrorHandler, whenever retryAvailable is true an error is
\* published and the retry counter is below maxRetries; the counter never
\* exceeds maxRetries; and a step in which validate, safeSync, or the
\* continuation of a safeAsync under a strategy other than RETRY surfaces an
\* error leaves retryAvailable false.
C28_RetryAvailableSound ==
  /\ []( /\ eh.retryAvailable => (eh.error # "null" /\ ehRetryCountRef < ehMax)
         /\ ehRetryCountRef <= ehMax )
  /\ [][ ( \/ EH_safeSync(TRUE)
           \/ EH_validate(TRUE)
           \/ \E c \in egCalls : EH_safeAsyncSettled(c) /\ c.phase = "threw" /\ c.strategy # "RETRY" )
           => (eh'.error # "null" /\ ~eh'.retryAvailable) ]_vars

\* C28 witness: with maxRetries = 1 and the counter at 0, a safeAsync under
\* ESCALATE has thrown: its error is published and no retry is offered.
C28_Witness ==
  /\ unit = "errors" /\ ehMax = 1 /\ ehRetryCountRef = 0
  /\ ehReturn.op = "ESCALATE" /\ ehReturn.value = "null"
  /\ eh.error = "safeAsync" /\ ~eh.retryAvailable

\* C29: in useAPI loading is true whenever a call issued on the binding has
\* not completed yet: the completion of one of two overlapping calls does not
\* set loading to false while the other is still in flight.
C29_LoadingWhileAnyCallInFlight ==
  apCalls # {} => ap.loading

\* C30: in useAPI at most one of data and error is non-null: a call that fails
\* after an earlier call succeeded does not leave the earlier data published
\* next to the new error.
C30_DataXorError ==
  ~(ap.data # "null" /\ ap.error # "null")

\* C25: useSettingsWithValidation.setValue runs the validators in order and
\* stops at the first that does not return true: then nothing is handed to
\* useSettings or to the capability, setValue returns false, isValid becomes
\* false and validationError is the message of that validator.  When every
\* validator returns true (or there is none) isValid is true, validationError
\* is null and the value is handed to useSettings' setValue once: with the
\* service, the key and the service's setSetting present, the capability's
\* setSetting is called exactly once, with that value.
C25_ValidationGatesSetValue ==
  [][ \A v \in NewValues, results \in ValidatorRuns :
        ST_setValueWithValidation(v, results) =>
          IF \E j \in 1..Len(results) : results[j] # "true"
            THEN /\ stCalls' = stCalls /\ stInvoked' = stInvoked /\ st' = st
                 /\ stReturn'.op = "setValue" /\ stReturn'.value = "false"
                 /\ ~sv'.isValid
                 /\ \E j \in 1..Len(results) :
                      /\ results[j] # "true"
                      /\ \A k \in 1..(j - 1) : results[k] = "true"
                      /\ sv'.validationError = results[j]
            ELSE /\ sv' = [isValid |-> TRUE, validationError |-> "null"]
                 /\ (stService /\ stKey)
                      => /\ Cardinality(stCalls' \ stCalls) = 1
                         /\ \A c \in stCalls' \ stCalls :
                              /\ c.op = "setValue" /\ c.arg = v
                              /\ c.status = (IF stMethods THEN "sent" ELSE "resolved")
                 /\ ~(stService /\ stKey)
                      => stCalls' = stCalls /\ stReturn'.value = "false" ]_vars

\* C25 witness: the second of two validators rejected the value: isValid is
\* false, validationError is its message, setValue returned false and the
\* capability's setSetting was never invoked.
C25_Witness ==
  /\ unit = "validated" /\ stPhase = "mounted" /\ stService /\ stKey /\ stMethods
  /\ sv = [isValid |-> FALSE, validationError |-> "E2"]
  /\ stReturn.op = "setValue" /\ stReturn.value = "false"
  /\ "setSetting" \notin stInvoked

\* C26: with auto-save enabled in PluginStateServiceTab, a burst of edits is
\* followed by exactly one saveState of the timer, issued when 1 second has
\* passed since the last edit and carrying the value last typed: no save of
\* the timer before that, no second one, and time does not pass the second
\* without it; and a timer is pending only in a mounted component with
\* auto-save enabled.
C26_BurstSavedOnce ==
  /\ au.burst
       => /\ au.sinceEdit < autoSaveDelay => au.timerSaves = 0
          /\ au.timerSaves <= 1
          /\ au.timerSaves = 1 => au.lastArg = <<au.edited>>
          /\ au.sinceEdit > autoSaveDelay => au.timerSaves = 1
  /\ au.timer # <<>> => (au.phase = "mounted" /\ au.autoSaveEnabled)

\* C31: once saveState(X) has resolved successfully, the continuation of an
\* auto-load getState leaves the published state alone: a load that settles
\* after the save does not replace X.
C31_LateLoadKeepsSavedState ==
  [][ \A c \in psCalls :
        (/\ psReturn.op = "saveState" /\ psReturn.outcome = "resolved"
         /\ psReturn.err = NoError /\ ps.isMountedRef
         /\ PS_loadStateSettled(c))
          => ps'.state = ps.state ]_vars

\* C32: in the component with manual wiring, a successful initialization
\* (isInitializing going from true to false while mounted) removes neither
\* the theme listener nor the page-context subscription from the host.
C32_InitializedKeepsListeners ==
  [][ \A run \in mw.runs :
        (mw.phase = "mounted" /\ MW_Initialized(run))
          => (mw'.hostTheme = mw.hostTheme /\ mw'.hostPage = mw.hostPage) ]_vars

\* C33: once the component with manual wiring is unmounted, the host holds
\* no theme listener and no page-context subscription of it.
C33_NothingRegisteredAfterUnmount ==
  mw.phase = "unmounted" => (mw.hostTheme = {} /\ mw.hostPage = {})

C35_RetryAvailableBelowMax ==
  /\ [][plRetryCountRef' >= plRetryCountRef]_vars
  /\ [](plRetryCountRef <= maxRetries)
  /\ [](pl.retryAvailable => plRetryCountRef < maxRetries)

\* C35 (amended): the counter never decreases and never exceeds maxRetries;
\* handleRetry re-enters the initialization only by counting one retry, so at
\* most maxRetries times, whatever initializations succeeded or errors were
\* dismissed before; and whenever the component is not initializing (the
\* error display can be shown), retryAvailable is true only while the counter
\* is below maxRetries.  While the initialization of the last retry runs the
\* flag keeps the value it had when that retry was offered.
C35_RetryOfferedBelowMax ==
  /\ [][ /\ plRetryCountRef' >= plRetryCountRef
         /\ (PL_handleRetry /\ pl'.isInitializing)
              => (plRetryCountRef < maxRetries /\ plRetryCountRef' = plRetryCountRef + 1)
         /\ (~pl.isInitializing /\ pl'.isInitializing) => PL_handleRetry ]_vars
  /\ [](plRetryCountRef <= maxRetries)
  /\ []((pl.retryAvailable /\ ~pl.isInitializing) => plRetryCountRef < maxRetries)

\* C35 witness: the third retry failed as well, and the error display offers
\* no further retry.
C35_Witness ==
  /\ plPhase = "mounted" /\ plRetryCountRef = maxRetries
  /\ ~pl.isInitializing /\ pl.error # "" /\ ~pl.retryAvailable

\* C36: in useSettings, the continuation of a load that was started for a
\* key other than the current settingKey does not change the published value.
C36_LateLoadOfOldKeyDropped ==
  [][ \A c \in sk.calls :
        (c.key # sk.settingKey /\ SK_Settled(c)) => sk'.hook.value = sk.hook.value ]_vars

\* C37: in EventServiceTab the host holds at most one message subscription
\* of the tab, only while the tab is mounted and isListening is true, and on
\* the selected channel with the handler of the effect's latest run; the
\* message list holds at most 10 entries, newest first.
C37_OneSubscriptionTenMessages ==
  /\ Cardinality(ev.subs) <= 1
  /\ ev.subs # {} => (ev.phase = "mounted" /\ ev.isListening)
  /\ \A sub \in ev.subs : sub.channel = ev.channel /\ sub.handler = ev.runs
  /\ ev.subs = ev.cleanup
  /\ Len(ev.messages) <= maxMessages
  /\ \A i \in 1..Len(ev.messages), j \in 1..Len(ev.messages) :
       i < j => ev.messages[i].n > ev.messages[j].n
  /\ ev.messages # <<>> => ev.messages[1].n = ev.received

\* C37 witness: more than 10 messages arrived, on both channels, and the tab
\* listens on the channel selected last.
C37_Witness ==
  /\ ev.received > maxMessages /\ Len(ev.messages) = maxMessages
  /\ ev.channel = "other" /\ ev.subs # {}
  /\ \E i \in 1..Len(ev.messages) : ev.messages[i].channel = "demo-channel"

====
